---- MODULE Spec2Model ----
(***************************************************************************)
(* Model of the HSDS data-node chunk handlers (hsds/chunk_dn.py) and of    *)
(* the selection / filter utilities they use (hsds/util/dsetUtil.py).      *)
(***************************************************************************)
EXTENDS Integers, Sequences, FiniteSets, TLC

VARIABLES
    args,            \* arguments of the utility call under examination
    result,          \* what that call returned or raised
    pc,              \* position of the utility call: "call" | "done"
    self_index,      \* ItemIterator._index
    chunk_cache,     \* app["chunk_cache"]: chunk id -> chunk array, for the resident chunks
    storage,         \* the bucket: chunk id -> chunk array, for the chunks that have an object
    filter_map,      \* app["filter_map"]: dataset id -> filter_ops
    dset_json,       \* the dataset descriptor that get_metadata_obj returns
    write_zero_chunks, \* config.get("write_zero_chunks")
    req,             \* the requests: handler, position, parameters and local variables
    first_ops        \* dataset id -> what the first getFilterOps call returned since
                     \* the entry of the dataset was last deleted

callVars == <<args, result, pc>>
iterVars == <<self_index>>
nodeVars == <<chunk_cache, storage, filter_map, dset_json, write_zero_chunks, req, first_ops>>
vars == <<args, result, pc, self_index, chunk_cache, storage, filter_map, dset_json,
          write_zero_chunks, req, first_ops>>

\* no iterator has been constructed
NoIterator == self_index = <<>>

\* a mapping with no key
EmptyMap == [k \in {} |-> 0]
\* d[k] = v and del d[k]
Put(d, k, v) == [x \in DOMAIN d \cup {k} |-> IF x = k THEN v ELSE d[x]]
Del(d, k) == [x \in DOMAIN d \ {k} |-> d[x]]

\* the utility functions are called outside any data node
NoNode ==
    /\ chunk_cache = EmptyMap
    /\ storage = EmptyMap
    /\ filter_map = EmptyMap
    /\ dset_json = EmptyMap
    /\ write_zero_chunks = FALSE
    /\ req = EmptyMap
    /\ first_ops = EmptyMap

(***************************************************************************)
(* Bounds of the exploration                                               *)
(***************************************************************************)
MaxExtent == 4       \* largest extent of a chunk dimension
Ranks == {1, 2}      \* ranks of the chunk layouts explored
ItemSizes == {1, 2}  \* element sizes in bytes explored
MaxStep == 2         \* largest stride of a range
MaxCoords == 2       \* longest coordinate list
MaxRequestSize == 5  \* largest byte budget of a page

(***************************************************************************)
(* Python values                                                           *)
(***************************************************************************)
\* None in an integer-valued slot (a slice's step)
None == -1

\* a call either returns a value or raises an exception
Return(v) == [raised |-> "no", value |-> v]
Raise(e) == [raised |-> e]
Returned(r) == r.raised = "no"

\* slice(start, stop, step) and a list of coordinates, tagged by their type
slice(start, stop, step) == [type |-> "slice", start |-> start, stop |-> stop, step |-> step]
coordlist(c) == [type |-> "list", coords |-> c]
isslice(s) == s.type = "slice"

RECURSIVE prod(_)
prod(shape) == IF shape = <<>> THEN 1 ELSE Head(shape) * prod(Tail(shape))

(***************************************************************************)
(* getSelectionShape                                                       *)
(***************************************************************************)
\* a mutant: the partial last stride is not counted
sliceExtent_floor(s) ==
    LET step == IF s.step # None /\ s.step # 0 /\ s.step > 1 THEN s.step ELSE 1
        e0 == IF s.stop > s.start THEN s.stop - s.start ELSE 0
    IN  IF step > 1 /\ e0 > 0 THEN e0 \div step ELSE e0

\* extent of one slice entry, lines 347-357
sliceExtent(s) ==
    LET step == IF s.step # None /\ s.step # 0 /\ s.step > 1 THEN s.step ELSE 1
        e0 == IF s.stop > s.start THEN s.stop - s.start ELSE 0
        e1 == IF step > 1 /\ e0 > 0 THEN e0 \div step ELSE e0
    IN  IF (s.stop - s.start) % step # 0 THEN e1 + 1 ELSE e1

\* the loop over the dimensions; coordinate_extent is None until the first
\* coordinate list is met
RECURSIVE shapeLoop(_, _, _, _)
shapeLoop(selection, i, shape, coordinate_extent) ==
    IF i > Len(selection) THEN Return(shape)
    ELSE LET s == selection[i] IN
         IF isslice(s)
         THEN shapeLoop(selection, i + 1, Append(shape, sliceExtent(s)), coordinate_extent)
         ELSE LET extent == Len(s.coords) IN
              IF coordinate_extent = None
              THEN shapeLoop(selection, i + 1, Append(shape, extent), extent)
              ELSE IF coordinate_extent # extent
                   THEN Raise("HTTPBadRequest")
                   ELSE shapeLoop(selection, i + 1, shape, coordinate_extent)

\* a shape with an entry for every coordinate list
getSelectionShape_each(selection) ==
    IF \E i, j \in 1..Len(selection) :
          /\ ~isslice(selection[i]) /\ ~isslice(selection[j])
          /\ Len(selection[i].coords) # Len(selection[j].coords)
    THEN Raise("HTTPBadRequest")
    ELSE Return([i \in 1..Len(selection) |->
                    IF isslice(selection[i]) THEN sliceExtent(selection[i])
                    ELSE Len(selection[i].coords)])
\* lines 333-373
getSelectionShape(selection) == shapeLoop(selection, 1, <<>>, None)

(***************************************************************************)
(* getSelectionPagination                                                  *)
(***************************************************************************)
\* step used for the pagination dimension, lines 713-716 and 755-758
pageStep(s) == IF s.step # None /\ s.step # 0 /\ s.stop > 1 THEN s.step ELSE 1

\* extent examined when looking for the pagination dimension, lines 711-721
dimPaginateExtent(s) ==
    IF isslice(s)
    THEN IF s.stop > s.start THEN s.stop - s.start ELSE 0
    ELSE Len(s.coords)

\* first dimension with extent > 1, 0 when there is none (lines 709-724)
RECURSIVE findPaginateDim(_, _, _)
findPaginateDim(select, rank, i) ==
    IF i > rank THEN 0
    ELSE IF dimPaginateExtent(select[i]) > 1 THEN i
         ELSE findPaginateDim(select, rank, i + 1)

\* pages of a range, lines 760-770
RECURSIVE slicePages(_, _, _, _)
slicePages(s, step, page_extent, start) ==
    IF ~(start < s.stop) THEN <<>>
    ELSE LET stop0 == start + page_extent
             stop1 == IF stop0 % step # 0 THEN stop0 + (step - (stop0 % step)) ELSE stop0
             stop == IF stop1 > s.stop THEN s.stop ELSE stop1
         IN  <<slice(start, stop, step)>> \o slicePages(s, step, page_extent, stop)

\* pages of a coordinate list, lines 773-782
RECURSIVE coordPages(_, _, _)
coordPages(c, page_extent, start) ==
    IF ~(start < Len(c)) THEN <<>>
    ELSE LET stop0 == start + page_extent
             stop == IF stop0 > Len(c) THEN Len(c) ELSE stop0
         IN  <<coordlist(SubSeq(c, start + 1, stop))>> \o coordPages(c, page_extent, stop)

\* a mutant: the request is never refused for needing too many pages
tooManyPages_never(paginate_extent, page_count) == FALSE

\* the pagination dimension cannot be cut into page_count pages, lines 743-747
tooManyPages(paginate_extent, page_count) == paginate_extent < page_count

fitsRequest_never(select_size, max_request_size) == FALSE

\* line 700: the selection needs no pagination
fitsRequest(select_size, max_request_size) == select_size <= max_request_size

getSelectionPagination(select, dims, itemsize, max_request_size) ==
    LET select_shape == getSelectionShape(select) IN
    IF ~Returned(select_shape) THEN select_shape
    ELSE
    LET select_size == prod(select_shape.value) * itemsize IN
    IF fitsRequest(select_size, max_request_size) THEN Return(<<select>>)
    ELSE
    LET rank == Len(dims)
        paginate_dim == findPaginateDim(select, rank, 1)
    IN
    IF paginate_dim = 0 THEN Raise("ValueError")
    ELSE
    LET page_count == (select_size \div max_request_size) + 1
        s == select[paginate_dim]
        paginate_extent == dimPaginateExtent(s)
    IN
    IF tooManyPages(paginate_extent, page_count) THEN Raise("ValueError")
    ELSE
    LET page_extent0 == paginate_extent \div page_count
        page_extent == IF page_extent0 < 1 THEN 1 ELSE page_extent0
        paginate_slices == IF isslice(s)
                           THEN slicePages(s, pageStep(s), page_extent, s.start)
                           ELSE coordPages(s.coords, page_extent, 0)
    IN  Return([page \in 1..Len(paginate_slices) |->
                  [i \in 1..rank |-> IF i = paginate_dim THEN paginate_slices[page]
                                     ELSE select[i]]])

(***************************************************************************)
(* Text: a Python str is a sequence of one-character strings               *)
(***************************************************************************)
DigitChars == <<"0", "1", "2", "3", "4", "5", "6", "7", "8", "9">>
isdigit(ch) == \E i \in 1..Len(DigitChars) : DigitChars[i] = ch
digitValue(ch) == (CHOOSE i \in 1..Len(DigitChars) : DigitChars[i] = ch) - 1

RECURSIVE digitsValue(_, _)
digitsValue(f, acc) ==
    IF f = <<>> THEN acc ELSE digitsValue(Tail(f), acc * Len(DigitChars) + digitValue(Head(f)))

\* int(str): an optional sign followed by one or more digits, else ValueError
int(field) ==
    LET signed == field # <<>> /\ Head(field) \in {"-", "+"}
        digits == IF signed THEN Tail(field) ELSE field
    IN  IF digits = <<>> \/ \E i \in 1..Len(digits) : ~isdigit(digits[i])
        THEN Raise("ValueError")
        ELSE IF signed /\ Head(field) = "-"
             THEN Return(0 - digitsValue(digits, 0))
             ELSE Return(digitsValue(digits, 0))

\* str(int)
RECURSIVE strNat(_)
strNat(n) ==
    IF n < Len(DigitChars) THEN <<DigitChars[n + 1]>>
    ELSE strNat(n \div Len(DigitChars)) \o <<DigitChars[(n % Len(DigitChars)) + 1]>>
str(n) == IF n < 0 THEN <<"-">> \o strNat(0 - n) ELSE strNat(n)

\* text.split(sep): the fields between the separators, at least one
RECURSIVE splitLoop(_, _, _)
splitLoop(text, sep, field) ==
    IF text = <<>> THEN <<field>>
    ELSE IF Head(text) = sep
         THEN <<field>> \o splitLoop(Tail(text), sep, <<>>)
         ELSE splitLoop(Tail(text), sep, Append(field, Head(text)))
split(text, sep) == splitLoop(text, sep, <<>>)

\* text[1:-1]
strip1(text) == IF Len(text) < 2 THEN <<>> ELSE SubSeq(text, 2, Len(text) - 1)
startswith(text, ch) == text # <<>> /\ Head(text) = ch
contains(text, ch) == \E i \in 1..Len(text) : text[i] = ch
\* sep.join(texts)
RECURSIVE join(_, _)
join(texts, sep) ==
    IF texts = <<>> THEN <<>>
    ELSE IF Len(texts) = 1 THEN texts[1]
    ELSE texts[1] \o <<sep>> \o join(Tail(texts), sep)

(***************************************************************************)
(* _getSelectElements: the per-dimension queries of a selection string     *)
(***************************************************************************)
RECURSIVE elementsLoop(_, _, _, _)
elementsLoop(select, query_array, dim_query, coord_list) ==
    IF select = <<>>
    THEN IF dim_query = <<>> THEN Raise("ValueError")
         ELSE Return(Append(query_array, dim_query))
    ELSE LET ch == Head(select)
             rest == Tail(select)
         IN
         IF ch = " " THEN elementsLoop(rest, query_array, dim_query, coord_list)
         ELSE IF ch = ","
         THEN IF coord_list
              THEN elementsLoop(rest, query_array, Append(dim_query, ch), coord_list)
              ELSE IF dim_query = <<>> THEN Raise("ValueError")
                   ELSE elementsLoop(rest, Append(query_array, dim_query), <<>>, coord_list)
         ELSE IF ch = "["
         THEN IF coord_list THEN Raise("ValueError")
              ELSE elementsLoop(rest, query_array, Append(dim_query, ch), TRUE)
         ELSE IF ch = "]"
         THEN IF ~coord_list THEN Raise("ValueError")
              ELSE elementsLoop(rest, query_array, Append(dim_query, ch), FALSE)
         ELSE IF ch = ":"
         THEN IF coord_list THEN Raise("ValueError")
              ELSE elementsLoop(rest, query_array, Append(dim_query, ch), coord_list)
         ELSE elementsLoop(rest, query_array, Append(dim_query, ch), coord_list)

getSelectElements(select) == elementsLoop(strip1(select), <<>>, <<>>, FALSE)

(***************************************************************************)
(* getSelectionList                                                        *)
(***************************************************************************)
\* the coordinates of a bracketed list, lines 591-602
RECURSIVE coordsLoop(_, _, _)
coordsLoop(fields, extent, coords) ==
    IF fields = <<>> THEN Return(coordlist(coords))
    ELSE LET coord == int(Head(fields)) IN
         IF ~Returned(coord) THEN Raise("ValueError")
         ELSE IF coord.value < 0 \/ coord.value >= extent THEN Raise("ValueError")
         ELSE coordsLoop(Tail(fields), extent, Append(coords, coord.value))

\* a mutant: a stop at or before the start is let through
stopInvalid_unordered(stop, start, extent) == stop < 0 \/ stop > extent

\* the test on a written stop value, line 627
stopInvalid(stop, start, extent) == stop < 0 \/ stop > extent \/ stop <= start

\* a start:stop or start:stop:step element, lines 607-646
rangeElement(element, extent) ==
    LET fields == split(element, ":") IN
    IF Len(fields) \notin {2, 3} THEN Raise("ValueError")
    ELSE
    LET start == IF fields[1] = <<>> THEN Return(0) ELSE int(fields[1]) IN
    IF ~Returned(start) THEN Raise("ValueError")
    ELSE IF fields[1] # <<>> /\ (start.value < 0 \/ start.value >= extent)
    THEN Raise("ValueError")
    ELSE
    LET stop == IF fields[2] = <<>> THEN Return(extent) ELSE int(fields[2]) IN
    IF ~Returned(stop) THEN Raise("ValueError")
    ELSE IF fields[2] # <<>> /\ stopInvalid(stop.value, start.value, extent)
    THEN Raise("ValueError")
    ELSE
    LET step == IF Len(fields) = 3 /\ fields[3] # <<>> THEN int(fields[3]) ELSE Return(1) IN
    IF ~Returned(step) THEN Raise("ValueError")
    ELSE IF Len(fields) = 3 /\ fields[3] # <<>> /\ step.value <= 0 THEN Raise("ValueError")
    ELSE Return(slice(start.value, stop.value, step.value))

\* a mutant: the index is the stop of the range
indexElement_before(element, extent) ==
    LET index == int(element) IN
    IF ~Returned(index) THEN Raise("ValueError")
    ELSE IF index.value < 0 \/ index.value >= extent THEN Raise("ValueError")
    ELSE Return(slice(index.value - 1, index.value, 1))

\* a single index, lines 648-657
indexElement(element, extent) ==
    LET index == int(element) IN
    IF ~Returned(index) THEN Raise("ValueError")
    ELSE IF index.value < 0 \/ index.value >= extent THEN Raise("ValueError")
    ELSE Return(slice(index.value, index.value + 1, 1))

\* one pass of the dimension loop, lines 581-657
selectElement(element, extent) ==
    IF startswith(element, "[") THEN coordsLoop(split(strip1(element), ","), extent, <<>>)
    ELSE IF element = <<":">> THEN Return(slice(0, extent, 1))
    ELSE IF contains(element, ":") THEN rangeElement(element, extent)
    ELSE indexElement(element, extent)

RECURSIVE selectLoop(_, _, _, _)
selectLoop(elements, dims, dim, select_list) ==
    IF dim > Len(elements) THEN Return(select_list)
    ELSE LET s == selectElement(elements[dim], dims[dim]) IN
         IF ~Returned(s) THEN s
         ELSE selectLoop(elements, dims, dim + 1, Append(select_list, s.value))

\* select is None, or a str
NoSelect == [type |-> "NoneType"]
strSelect(text) == [type |-> "str", text |-> text]

\* values of a request body, and the body as a selection
pyint(n) == [type |-> "int", value |-> n]
pylist(items) == [type |-> "list", items |-> items]
dictSelect(body) == [type |-> "dict", body |-> body]
\* lines 479-480: a value that is no list counts as a list of one
aslist(val) == IF val.type = "list" THEN val.items ELSE <<val.value>>

getSelectionStringFromRequestBody_nostep(body) ==
    IF ~({"start", "stop"} \subseteq DOMAIN body) THEN Raise("KeyError")
    ELSE
    LET start_val == aslist(body.start)
        stop_val == aslist(body.stop)
    IN  IF Len(start_val) # Len(stop_val) THEN Raise("ValueError")
        ELSE
        Return(<<"[">> \o join([i \in 1..Len(start_val) |->
                                    str(start_val[i]) \o <<":">> \o str(stop_val[i])], ",")
                       \o <<"]">>)

\* lines 473-508
getSelectionStringFromRequestBody(body) ==
    IF ~("start" \in DOMAIN body) THEN Raise("KeyError")
    ELSE
    LET start_val == aslist(body.start)
        rank == Len(start_val)
    IN  IF ~("stop" \in DOMAIN body) THEN Raise("KeyError")
        ELSE
        LET stop_val == aslist(body.stop) IN
        IF Len(stop_val) # rank THEN Raise("ValueError")
        ELSE IF "step" \in DOMAIN body /\ Len(aslist(body.step)) # rank
        THEN Raise("ValueError")
        ELSE
        \* None without a step; an empty list is as false as None at line 502
        LET step_val == IF "step" \in DOMAIN body THEN aslist(body.step) ELSE <<>>
            dim_sel == [i \in 1..rank |->
                          str(start_val[i]) \o <<":">> \o str(stop_val[i])
                            \o (IF step_val # <<>> THEN <<":">> \o str(step_val[i])
                                ELSE <<>>)]
        IN  Return(<<"[">> \o join(dim_sel, ",") \o <<"]">>)

\* lines 560-660: a body is turned into its selection string first
getSelectionList(select_or_body, dims) ==
    LET text == IF select_or_body.type = "dict"
                THEN getSelectionStringFromRequestBody(select_or_body.body)
                ELSE Return(<<>>)
        select == IF select_or_body.type = "dict" /\ Returned(text)
                  THEN strSelect(text.value)
                  ELSE select_or_body
    IN  IF ~Returned(text) THEN text
        ELSE IF select.type = "NoneType" \/ Len(select.text) = 0
        THEN Return([i \in 1..Len(dims) |-> slice(0, dims[i], 1)])
        ELSE LET elements == getSelectElements(select.text) IN
             IF ~Returned(elements) THEN elements
             ELSE IF Len(dims) # Len(elements.value) THEN Raise("ValueError")
             ELSE selectLoop(elements.value, dims, 1, <<>>)

(***************************************************************************)
(* Inputs                                                                  *)
(***************************************************************************)
SeqsUpTo(S, n) == UNION {[1..k -> S] : k \in 1..n}

\* ranges that getSelectionList accepts for a dimension of the given extent
Ranges(extent) ==
    UNION {{slice(a, b, st) : b \in (a + 1)..extent, st \in 1..MaxStep} : a \in 0..(extent - 1)}
\* coordinate lists that getSelectionList accepts for that dimension
CoordLists(extent) == {coordlist(c) : c \in SeqsUpTo(0..(extent - 1), MaxCoords)}
DimSelections(extent) == Ranges(extent) \cup CoordLists(extent)
\* selections over a chunk layout
Selections(dims) ==
    {sel \in [1..Len(dims) -> DimSelections(MaxExtent)] :
        \A i \in 1..Len(dims) : sel[i] \in DimSelections(dims[i])}

(***************************************************************************)
(* Calls of getSelectionPagination                                         *)
(***************************************************************************)
\* the layouts paginated: getSelectionPagination reads only len(dims)
PaginationDims == {<<MaxExtent>>, <<MaxExtent, 2>>, <<2, MaxExtent>>}
PaginationArgs(d) ==
    {[select |-> sel, dims |-> d, itemsize |-> isz, max_request_size |-> mx] :
        sel \in Selections(d), isz \in ItemSizes, mx \in 1..MaxRequestSize}

InitPagination ==
    /\ \E d \in PaginationDims : args \in PaginationArgs(d)
    /\ result = Raise("pending")
    /\ pc = "call"
    /\ NoIterator
    /\ NoNode

CallPagination ==
    /\ pc = "call"
    /\ result' = getSelectionPagination(args.select, args.dims, args.itemsize,
                                        args.max_request_size)
    /\ pc' = "done"
    /\ UNCHANGED <<args, iterVars, nodeVars>>

NextPagination == CallPagination

SpecPagination == InitPagination /\ [][NextPagination]_vars

(***************************************************************************)
(* Calls of getSelectionList: selection strings as a client writes them    *)
(***************************************************************************)
\* numbers a client may write: below, inside and above every extent
Nums == (0 - 1)..(MaxExtent + 1)
Omitted == [given |-> FALSE]
Given(n) == [given |-> TRUE, n |-> n]
Opt(S) == {Omitted} \cup {Given(n) : n \in S}

\* what is written for one dimension
IndexForms == {[form |-> "index", n |-> n] : n \in Nums}
RangeForms ==
    {[form |-> "range", start |-> a, stop |-> b, step |-> Omitted, colons |-> 1] :
        a \in Opt(Nums), b \in Opt(Nums)}
    \cup {[form |-> "range", start |-> a, stop |-> b, step |-> s, colons |-> 2] :
        a \in Opt(Nums), b \in Opt(Nums), s \in Opt(0..MaxStep)}
CoordForms == {[form |-> "coords", coords |-> c] : c \in SeqsUpTo(Nums, MaxCoords)}
\* texts that follow none of the forms
RawForms ==
    {[form |-> "raw", text |-> x] :
        x \in {<<"x">>, <<"1", ":", "2", ":", "1", ":", "1">>, <<"[", "1">>, <<"1", "]">>,
               <<"[", "[", "1", "]", "]">>, <<"[", "0", ":", "1", "]">>, <<"[", "]">>,
               <<"1", "x">>}}
ElementForms == IndexForms \cup RangeForms \cup CoordForms \cup RawForms
\* a few forms to put beside another dimension
SimpleForms ==
    {[form |-> "index", n |-> 0],
     [form |-> "range", start |-> Omitted, stop |-> Omitted, step |-> Omitted, colons |-> 1],
     [form |-> "range", start |-> Given(0), stop |-> Given(1), step |-> Omitted, colons |-> 1],
     [form |-> "coords", coords |-> <<0>>],
     [form |-> "coords", coords |-> <<0, 0>>],
     [form |-> "raw", text |-> <<"x">>]}

optText(o) == IF o.given THEN str(o.n) ELSE <<>>
elementText(e) ==
    CASE e.form = "index" -> str(e.n)
      [] e.form = "range" ->
            optText(e.start) \o <<":">> \o optText(e.stop)
              \o (IF e.colons = 2 THEN <<":">> \o optText(e.step) ELSE <<>>)
      [] e.form = "coords" ->
            <<"[">> \o join([i \in 1..Len(e.coords) |-> str(e.coords[i])], ",") \o <<"]">>
      [] OTHER -> e.text
\* the selection string: [<dim>,<dim>,...]
selectText(written) ==
    <<"[">> \o join([i \in 1..Len(written) |-> elementText(written[i])], ",") \o <<"]">>

\* what is written for one, two or three dimensions
WrittenSelections(forms) ==
    {<<e>> : e \in forms}
    \cup {<<e, f>> : e \in forms, f \in SimpleForms}
    \cup {<<f, e>> : e \in forms, f \in SimpleForms}
    \cup {<<f, g, h>> : f \in SimpleForms, g \in SimpleForms, h \in SimpleForms}

\* chunk layouts: getChunkLayout returns the positive extents of a chunk
ParseDims ==
    {<<e>> : e \in 1..MaxExtent} \cup {<<2, MaxExtent>>, <<MaxExtent, 2>>}

\* ranges with both bounds, as a request body gives them
BodyRanges(starts, stops) ==
    {[form |-> "range", start |-> Given(a), stop |-> Given(b), step |-> s,
      colons |-> IF s.given THEN 2 ELSE 1] : a \in starts, b \in stops, s \in Opt(0..MaxStep)}
BodyWritten ==
    {<<e>> : e \in BodyRanges(Nums, Nums)}
    \cup {w \in {<<e, f>> : e \in BodyRanges(0..1, 1..MaxExtent), f \in BodyRanges({0}, 1..2)} :
            w[1].step.given = w[2].step.given}
\* the body {start, stop, step} for the ranges written; aslists is whether the values
\* are lists or, for one dimension, plain numbers
requestBody(written, aslists) ==
    LET val(key) == IF aslists THEN pylist([i \in 1..Len(written) |-> written[i][key].n])
                    ELSE pyint(written[1][key].n)
    IN  IF written[1].step.given
        THEN [start |-> val("start"), stop |-> val("stop"), step |-> val("step")]
        ELSE [start |-> val("start"), stop |-> val("stop")]
\* bodies that lack a key, or whose values differ in length
BrokenBodies ==
    {[stop |-> pylist(<<1>>)],
     [start |-> pylist(<<0>>)],
     [start |-> pylist(<<0, 0>>), stop |-> pyint(1)],
     [start |-> pyint(0), stop |-> pyint(1), step |-> pylist(<<1, 1>>)]}
BodyArgs(d) ==
    {[select |-> dictSelect(requestBody(w, l)), dims |-> d, written |-> w] :
        w \in BodyWritten, l \in {TRUE}}
    \cup {[select |-> dictSelect(requestBody(w, FALSE)), dims |-> d, written |-> w] :
        w \in {<<e>> : e \in BodyRanges({0}, {1, MaxExtent})}}
    \cup {[select |-> dictSelect(b), dims |-> d, written |-> <<>>] : b \in BrokenBodies}

\* args.written is what the client meant, args.select the string or the body sent
ParseArgs(d) ==
    {[select |-> strSelect(selectText(w)), dims |-> d, written |-> w] : w \in WrittenSelections(ElementForms)}
    \cup {[select |-> s, dims |-> d, written |-> <<>>] : s \in {NoSelect, strSelect(<<>>)}}
    \cup BodyArgs(d)

InitParse ==
    /\ \E d \in ParseDims : args \in ParseArgs(d)
    /\ result = Raise("pending")
    /\ pc = "call"
    /\ NoIterator
    /\ NoNode

CallParse ==
    /\ pc = "call"
    /\ result' = getSelectionList(args.select, args.dims)
    /\ pc' = "done"
    /\ UNCHANGED <<args, iterVars, nodeVars>>

\* lines 410-425: the loop over zip(slices, dims); a list has no attribute step
RECURSIVE selectAllLoop(_, _, _)
selectAllLoop(slices, dims, i) ==
    IF i > Len(slices) THEN Return(TRUE)
    ELSE LET s == slices[i] IN
         IF ~isslice(s) THEN Raise("AttributeError")
         ELSE IF s.step # None /\ s.step # 1 THEN Return(FALSE)
         ELSE IF s.start # 0 THEN Return(FALSE)
         ELSE IF s.stop # dims[i] THEN Return(FALSE)
         ELSE selectAllLoop(slices, dims, i + 1)

isSelectAll(slices, dims) ==
    IF Len(slices) # Len(dims) THEN Raise("ValueError")
    ELSE selectAllLoop(slices, dims, 1)

\* isSelectAll is called with the selection that getSelectionList returned
CallSelectAll ==
    /\ pc = "done"
    /\ Returned(result)
    /\ args' = [slices |-> result.value, dims |-> args.dims]
    /\ result' = isSelectAll(result.value, args.dims)
    /\ pc' = "isSelectAll"
    /\ UNCHANGED <<iterVars, nodeVars>>

\* a range written without its step
sliceParam_nostep(s) == str(s.start) \o <<":">> \o str(s.stop)
\* lines 820-825: start:stop, and :step for a step above 1
sliceParam(s) ==
    str(s.start) \o <<":">> \o str(s.stop) \o (IF s.step > 1 THEN <<":">> \o str(s.step) ELSE <<>>)

\* lines 826-834: the coordinates in brackets
coordParam(s) == <<"[">> \o join([j \in 1..Len(s.coords) |-> str(s.coords[j])], ",") \o <<"]">>

\* lines 803-842: None for rank 0; None > 1 is a TypeError
getSliceQueryParam(sel) ==
    IF Len(sel) = 0 THEN Return(NoSelect)
    ELSE IF \E i \in 1..Len(sel) : isslice(sel[i]) /\ sel[i].step = None THEN Raise("TypeError")
    ELSE Return(strSelect(
             <<"[">>
             \o join([i \in 1..Len(sel) |-> IF isslice(sel[i]) THEN sliceParam(sel[i])
                                             ELSE coordParam(sel[i])], ",")
             \o <<"]">>))

\* getSliceQueryParam is called with the selection that getSelectionList returned
CallSliceQueryParam ==
    /\ pc = "done"
    /\ Returned(result)
    /\ args' = [sel |-> result.value, dims |-> args.dims]
    /\ result' = getSliceQueryParam(result.value)
    /\ pc' = "getSliceQueryParam"
    /\ UNCHANGED <<iterVars, nodeVars>>

\* and getSelectionList with the query parameter
CallParseParam ==
    /\ pc = "getSliceQueryParam"
    /\ Returned(result)
    /\ args' = [sel |-> args.sel, dims |-> args.dims, select |-> result.value]
    /\ result' = getSelectionList(result.value, args.dims)
    /\ pc' = "getSelectionList"
    /\ UNCHANGED <<iterVars, nodeVars>>

NextParse == CallParse \/ CallSelectAll \/ CallSliceQueryParam \/ CallParseParam

SpecParse == InitParse /\ [][NextParse]_vars

(***************************************************************************)
(* Reference semantics of a selection: its coordinates in row-major order  *)
(***************************************************************************)
\* start, start + step, ... below stop
RECURSIVE rangeCoords(_, _, _)
rangeCoords(start, stop, step) ==
    IF start >= stop THEN <<>> ELSE <<start>> \o rangeCoords(start + step, stop, step)

DimCoords(s) == IF isslice(s) THEN rangeCoords(s.start, s.stop, s.step) ELSE s.coords

RECURSIVE Flatten(_)
Flatten(ss) == IF ss = <<>> THEN <<>> ELSE Head(ss) \o Flatten(Tail(ss))

\* coordinate tuples of the dimensions from i on, the last one fastest
RECURSIVE CoordsFrom(_, _)
CoordsFrom(sel, i) ==
    IF i > Len(sel) THEN << <<>> >>
    ELSE LET rest == CoordsFrom(sel, i + 1)
             here == DimCoords(sel[i])
         IN  Flatten([k \in 1..Len(here) |->
                        [j \in 1..Len(rest) |-> <<here[k]>> \o rest[j]]])
Coords(sel) == CoordsFrom(sel, 1)

NumCoordLists(sel) == Cardinality({i \in 1..Len(sel) : ~isslice(sel[i])})

\* the pagination call has returned its pages
Paginated == pc = "done" /\ Returned(result)
SelectBytes == prod(getSelectionShape(args.select).value) * args.itemsize

\* C1: for a budget of at least one element, the coordinates of the pages,
\* concatenated in page order, are exactly the coordinates of the selection, in
\* the original order.
C1_PagesRoundTrip ==
    (Paginated /\ args.max_request_size >= args.itemsize /\ NumCoordLists(args.select) <= 1)
        => Flatten([p \in 1..Len(result.value) |-> Coords(result.value[p])])
             = Coords(args.select)

\* C2: every page returned needs at most max_request_size bytes.
C2_PagesWithinBudget ==
    (Paginated /\ NumCoordLists(args.select) <= 1)
        => \A p \in 1..Len(result.value) :
             prod(getSelectionShape(result.value[p]).value) * args.itemsize
                <= args.max_request_size

\* what the claims call the extent of an entry: the number of indices it selects
EntryExtent(s) == Len(DimCoords(s))
\* the span the paginator measures: stop - start of a range, length of a list
Span(s) == IF isslice(s) THEN s.stop - s.start ELSE Len(s.coords)
WideDims(sel) == {i \in 1..Len(sel) : Span(sel[i]) > 1}
FirstWideDim(sel) == CHOOSE i \in WideDims(sel) : \A j \in WideDims(sel) : i <= j
PageCount == (SelectBytes \div args.max_request_size) + 1
\* the call was made on a selection that does not fit the budget
OverBudget ==
    /\ pc = "done"
    /\ Returned(getSelectionShape(args.select))
    /\ SelectBytes > args.max_request_size

\* C8 as stated: over budget, pagination fails only if no dimension has an
\* extent greater than 1.
C8_FailsOnlyWithoutWideDim ==
    (OverBudget /\ ~Returned(result))
        => \A i \in 1..Len(args.select) : EntryExtent(args.select[i]) <= 1

\* What the code does instead: over budget, pagination is refused exactly when
\* no dimension has a span (stop - start, or list length) greater than 1 or
\* the span of the pagination dimension is smaller than page_count.
RefusedIffTooFewEntries ==
    OverBudget =>
        (~Returned(result) <=>
            \/ WideDims(args.select) = {}
            \/ Span(args.select[FirstWideDim(args.select)]) < PageCount)

(***************************************************************************)
(* Calls of getSelectionShape                                              *)
(***************************************************************************)
\* ranges with or without a step, coordinate lists of any length
ShapeEntries ==
    UNION {{slice(a, b, st) : b \in (a + 1)..MaxExtent, st \in {None} \cup (1..MaxStep)} :
              a \in 0..(MaxExtent - 1)}
    \cup CoordLists(MaxExtent)
\* the selections of the function's documentation
ShapeExamples ==
    {<<slice(3, 7, 1)>>, <<slice(3, 7, 3)>>, <<slice(44, 52, 1), slice(48, 52, 1)>>}
ShapeArgs(r) ==
    {[selection |-> sel] : sel \in [1..r -> ShapeEntries]}
    \cup {[selection |-> sel] : sel \in ShapeExamples}

InitShape ==
    /\ \E r \in Ranks : args \in ShapeArgs(r)
    /\ result = Raise("pending")
    /\ pc = "call"
    /\ NoIterator
    /\ NoNode

CallShape ==
    /\ pc = "call"
    /\ result' = getSelectionShape(args.selection)
    /\ pc' = "done"
    /\ UNCHANGED <<args, iterVars, nodeVars>>

NextShape == CallShape

SpecShape == InitShape /\ [][NextShape]_vars

\* ceil((stop - start) / stride), a missing stride counting as 1
CeilExtent(s) ==
    LET stride == IF s.step = None THEN 1 ELSE s.step
    IN  (s.stop - s.start + stride - 1) \div stride
ExtentOf(s) == IF isslice(s) THEN CeilExtent(s) ELSE Len(s.coords)
CoordDims(sel) == {i \in 1..Len(sel) : ~isslice(sel[i])}
UnequalCoordLists(sel) ==
    \E i, j \in CoordDims(sel) : Len(sel[i].coords) # Len(sel[j].coords)
\* the dimensions that get an entry of the shape: the ranges and the first
\* coordinate list
RECURSIVE ShapedEntries(_, _, _)
ShapedEntries(sel, i, seen) ==
    IF i > Len(sel) THEN <<>>
    ELSE IF isslice(sel[i]) THEN <<sel[i]>> \o ShapedEntries(sel, i + 1, seen)
    ELSE IF seen THEN ShapedEntries(sel, i + 1, seen)
    ELSE <<sel[i]>> \o ShapedEntries(sel, i + 1, TRUE)

ShapeDone == pc = "done"

C7_Examples ==
    ShapeDone =>
        /\ args.selection = <<slice(3, 7, 1)>> => result = Return(<<4>>)
        /\ args.selection = <<slice(44, 52, 1), slice(48, 52, 1)>> => result = Return(<<8, 4>>)

(***************************************************************************)
(* ItemIterator                                                            *)
(***************************************************************************)
\* the item handed out: an int for rank 1, the list of indices otherwise
scalarItem(i) == [int |-> i]
listItem(index) == [list |-> index]

\* ItemIterator.__init__, lines 1031-1037
iteratorInit(selection) == [i \in 1..Len(selection) |-> selection[i].start]

\* a mutant: the carry forgets to rewind the dimension it leaves
rewound_never(index, dim, s) == index

\* the dimension that overflowed goes back to its start, lines 1058-1059
rewound(index, dim, s) == IF dim > 1 THEN [index EXCEPT ![dim] = s.start] ELSE index

\* the while loop of next(), lines 1051-1060: the state of _index after it
RECURSIVE advance(_, _, _)
advance(selection, index, dim) ==
    IF dim < 1 THEN index
    ELSE LET s == selection[dim]
             stepped == [index EXCEPT ![dim] = @ + s.step]
         IN  IF stepped[dim] < s.stop THEN stepped
             ELSE advance(selection, rewound(stepped, dim, s), dim - 1)

IterSelections(r) == [1..r -> Ranges(MaxExtent)] \cup [1..3 -> Ranges(2)]

InitIter ==
    /\ \E r \in Ranks : args \in {[selection |-> sel] : sel \in IterSelections(r)}
    /\ self_index = iteratorInit(args.selection)
    /\ result = <<>>
    /\ pc = "iterating"
    /\ NoNode

\* ItemIterator.next, lines 1042-1063; result collects the items returned
next ==
    /\ pc \in {"iterating", "StopIteration"}
    /\ IF self_index[1] >= args.selection[1].stop
       THEN /\ pc' = "StopIteration"
            /\ UNCHANGED <<self_index, result>>
       ELSE /\ self_index' = advance(args.selection, self_index, Len(args.selection))
            /\ result' = Append(result, IF Len(args.selection) = 1
                                        THEN scalarItem(self_index[1])
                                        ELSE listItem(self_index))
            /\ pc' = "iterating"
    /\ UNCHANGED <<args, nodeVars>>

NextIter == next

SpecIter == InitIter /\ [][NextIter]_vars

\* the items of a selection: its coordinates in row-major order, scalars for
\* rank 1
ItemsOf(sel) ==
    LET c == Coords(sel)
    IN  [k \in 1..Len(c) |-> IF Len(sel) = 1 THEN scalarItem(c[k][1]) ELSE listItem(c[k])]
IsPrefix(s, u) == Len(s) <= Len(u) /\ s = SubSeq(u, 1, Len(s))

\* successive calls of next() return the coordinates of the selection in
\* row-major order, each once, product(getSelectionShape(selection)) in all,
\* as scalars for rank 1; StopIteration is raised exactly when all have been
\* returned.
ItemsInRowMajorOrder ==
    pc \in {"iterating", "StopIteration"} =>
        /\ IsPrefix(result, ItemsOf(args.selection))
        /\ pc = "StopIteration" =>
             /\ result = ItemsOf(args.selection)
             /\ Len(result) = prod(getSelectionShape(args.selection).value)
        /\ (self_index[1] >= args.selection[1].stop) => result = ItemsOf(args.selection)

\* once StopIteration has been raised every further call raises it again and
\* returns no item
NeverRestarts ==
    [][pc = "StopIteration" => (pc' = "StopIteration" /\ result' = result)]_vars

\* C9: next() returns exactly the coordinates of a selection of ranges in
\* row-major order, each once (scalars for rank 1), and after the last item
\* every further call raises StopIteration.
C9_Iterator == []ItemsInRowMajorOrder /\ NeverRestarts

\* all the items of a strided two-dimensional selection have been returned
C9_Witness ==
    /\ pc = "StopIteration"
    /\ Len(args.selection) = 2
    /\ args.selection[2].step > 1
    /\ Len(result) > 3

\* the iteration over [0:3, 0:2]
C9_Example ==
    (pc = "StopIteration" /\ args.selection = <<slice(0, 3, 1), slice(0, 2, 1)>>)
        => result = <<listItem(<<0, 0>>), listItem(<<0, 1>>), listItem(<<1, 0>>),
                      listItem(<<1, 1>>), listItem(<<2, 0>>), listItem(<<2, 1>>)>>

(***************************************************************************)
(* Claims on getSelectionList                                              *)
(***************************************************************************)
\* an entry within the limits of its dimension
ValidEntry(s, extent) ==
    IF isslice(s)
    THEN 0 <= s.start /\ s.start < s.stop /\ s.stop <= extent /\ s.step >= 1
    ELSE \A j \in 1..Len(s.coords) : 0 <= s.coords[j] /\ s.coords[j] < extent

\* what was written for a dimension has a bound or coordinate outside the limits
OutOfLimits(e, extent) ==
    CASE e.form = "index" -> e.n < 0 \/ e.n >= extent
      [] e.form = "range" ->
            LET start == IF e.start.given THEN e.start.n ELSE 0
                stop == IF e.stop.given THEN e.stop.n ELSE extent
            IN  \/ start < 0 \/ start >= stop \/ stop > extent
                \/ e.step.given /\ e.step.n < 1
      [] e.form = "coords" -> \E j \in 1..Len(e.coords) : e.coords[j] < 0 \/ e.coords[j] >= extent
      [] OTHER -> FALSE

Parsed == pc = "done" /\ args.written # <<>>

\* C5: a selection returned for a non-empty expression has one entry per
\* dimension, every range within 0 <= start < stop <= extent with stride >= 1
\* and every coordinate within 0 <= index < extent; an expression of another
\* rank, or with a bound or coordinate outside these limits, raises an error.
C5_ParsedSelectionValid ==
    Parsed =>
        /\ Returned(result) =>
             /\ Len(result.value) = Len(args.dims)
             /\ \A i \in 1..Len(result.value) : ValidEntry(result.value[i], args.dims[i])
        /\ (\/ Len(args.written) # Len(args.dims)
            \/ \E i \in 1..Len(args.written) : OutOfLimits(args.written[i], args.dims[i]))
             => ~Returned(result)

\* a two-dimensional expression with a strided range and a coordinate list
\* has been parsed
C5_Witness ==
    /\ Parsed
    /\ Len(args.written) = 2
    /\ Returned(result)
    /\ isslice(result.value[1]) /\ result.value[1].step > 1
    /\ ~isslice(result.value[2]) /\ Len(result.value[2].coords) > 1

FormIsCoords(e) == e.form = "coords"
\* C6: getSelectionList fails when two coordinate-list dimensions of the
\* expression have different lengths.
C6_UnequalCoordListsRejected ==
    (/\ Parsed
     /\ \E i, j \in 1..Len(args.written) :
           /\ FormIsCoords(args.written[i]) /\ FormIsCoords(args.written[j])
           /\ Len(args.written[i].coords) # Len(args.written[j].coords))
        => ~Returned(result)

(***************************************************************************)
(* getFilterOps                                                            *)
(***************************************************************************)
\* None where the other values are records
NoneObj == [type |-> "NoneType"]
\* key in d
has(d, key) == key \in DOMAIN d

COMPRESSION_FILTER_IDS ==
    {"H5Z_FILTER_DEFLATE", "H5Z_FILTER_SZIP", "H5Z_FILTER_SCALEOFFSET", "H5Z_FILTER_LZF",
     "H5Z_FILTER_BLOSC", "H5Z_FILTER_SNAPPY", "H5Z_FILTER_LZ4", "H5Z_FILTER_LZ4HC",
     "H5Z_FILTER_ZSTD"}
COMPRESSION_FILTER_NAMES == {"gzip", "szip", "lzf", "blosclz", "snappy", "lz4", "lz4hc", "zstd"}

\* lines 121-139; the tuple given to all() is built whole, so filter["name"] is
\* read of every filter whose class is no compression class
RECURSIVE getCompressionFilter(_)
getCompressionFilter(filters) ==
    IF filters = <<>> THEN Return(NoneObj)
    ELSE LET filter == Head(filters) IN
         IF ~has(filter, "class") THEN getCompressionFilter(Tail(filters))
         ELSE IF filter.class \in COMPRESSION_FILTER_IDS THEN Return(filter)
         ELSE IF ~has(filter, "name") THEN Raise("KeyError")
         ELSE IF filter.class = "H5Z_FILTER_USER" /\ filter.name \in COMPRESSION_FILTER_NAMES
         THEN Return(filter)
         ELSE getCompressionFilter(Tail(filters))

\* lines 142-156
RECURSIVE getShuffleFilter(_)
getShuffleFilter(filters) ==
    IF filters = <<>> THEN NoneObj
    ELSE LET filter == Head(filters) IN
         IF ~has(filter, "class") THEN getShuffleFilter(Tail(filters))
         ELSE IF filter.class \in {"H5Z_FILTER_SHUFFLE", "H5Z_FILTER_BITSHUFFLE"} THEN filter
         ELSE getShuffleFilter(Tail(filters))

\* lines 79-91: len(None) is a TypeError
isVlen(dt) == IF dt = NoneObj THEN Raise("TypeError") ELSE Return(dt.vlen)

\* lines 190-201
compressorOps(compressionFilter, filter_ops) ==
    IF compressionFilter = NoneObj THEN filter_ops
    ELSE LET compressor ==
                 IF compressionFilter.class = "H5Z_FILTER_DEFLATE" THEN "zlib"
                 ELSE IF has(compressionFilter, "name") THEN compressionFilter.name
                 ELSE "lz4"
             level == IF ~has(compressionFilter, "level") THEN 5 ELSE compressionFilter.level
         IN  Put(Put(filter_ops, "compressor", compressor), "level", level)

\* a mutant: the lookup in filter_map is left out
cached_never(dset_id, map) == FALSE

\* the lookup of lines 164-166
cached(dset_id, map) == dset_id \in DOMAIN map

\* a getFilterOps that resolves the compressor on every call and stores it again
getFilterOps_again(map, dset_id, filters, dtype, chunk_shape) ==
    LET compressionFilter == getCompressionFilter(filters) IN
    IF ~Returned(compressionFilter) THEN [result |-> compressionFilter, filter_map |-> map]
    ELSE
    LET ops == compressorOps(compressionFilter.value, [shuffle |-> 0])
        filter_ops == Put(Put(ops, "chunk_shape", chunk_shape), "dtype", dtype)
    IN  [result |-> Return(filter_ops), filter_map |-> Put(map, dset_id, filter_ops)]
\* lines 159-212: the result of the call and filter_map after it
getFilterOps(map, dset_id, filters, dtype, chunk_shape) ==
    IF cached(dset_id, map) THEN [result |-> Return(map[dset_id]), filter_map |-> map]
    ELSE
    LET compressionFilter == getCompressionFilter(filters)
        shuffleFilter == getShuffleFilter(filters)
        vlen == IF shuffleFilter # NoneObj THEN isVlen(dtype) ELSE Return(FALSE)
    IN
    IF ~Returned(compressionFilter) THEN [result |-> compressionFilter, filter_map |-> map]
    ELSE IF ~Returned(vlen) THEN [result |-> vlen, filter_map |-> map]
    ELSE IF shuffleFilter # NoneObj /\ ~vlen.value /\ ~has(shuffleFilter, "name")
    THEN [result |-> Raise("KeyError"), filter_map |-> map]
    ELSE
    LET shuffle == IF shuffleFilter # NoneObj /\ ~vlen.value
                   THEN IF shuffleFilter.name = "shuffle" THEN 1
                        ELSE IF shuffleFilter.name = "bitshuffle" THEN 2
                        ELSE 0
                   ELSE 0
        ops == compressorOps(compressionFilter.value, [shuffle |-> shuffle])
        \* filter_ops holds "shuffle" on every path, so it is never empty at line 203
        filter_ops == Put(Put(ops, "chunk_shape", chunk_shape), "dtype", dtype)
    IN  [result |-> Return(filter_ops), filter_map |-> Put(map, dset_id, filter_ops)]

(***************************************************************************)
(* The data node                                                           *)
(***************************************************************************)
DsetIds == {"d-1", "d-2"}
\* the chunks of dataset d-1 that lie in the partition of this node
ChunkIds == {"c-1_0", "c-1_1"}
\* a parameter that the request does not carry
Absent == "(absent)"
\* chunk ids as a client may send them: none, no chunk id, a chunk of another node
BadIds == {"", "x", "c-9_0"}
BadBuckets == {Absent, "", "bad bucket"}

isValidUuid(chunk_id) == chunk_id \in ChunkIds \cup {"c-9_0"}
\* validateInPartition raises KeyError for a chunk of another node
validateInPartition(chunk_id) == chunk_id \in ChunkIds
getDatasetId(chunk_id) == IF chunk_id \in ChunkIds THEN "d-1" ELSE "d-9"
isValidBucketName(bucket) == bucket = "bucket"

\* contents of a chunk array; a chunk that is initialized holds 0
Arrays == {0, 1}

\* capacity of the chunk cache and the free room a write asks for, in chunks
mem_target == 2
min_chunk_size == 2
memFree(cache) == mem_target - Cardinality(DOMAIN cache)

\* the request slots
Reqs == {1, 2}

\* request.rel_url.query, request.match_info and the request headers
Params(chunk_id, bucket) ==
    [chunk_id |-> chunk_id, bucket |-> bucket, has_body |-> TRUE, dset |-> FALSE,
     select |-> NoSelect, query |-> Absent, content_length |-> 1, content_type |-> "binary",
     count |-> TRUE, action |-> Absent]

\* a request at its arrival: no local variable is bound, nothing was done
Request(handler, params) ==
    [handler |-> handler, pc |-> "start", params |-> params, status |-> "", did |-> {},
     selection |-> <<>>, chunk_init |-> FALSE, chunk_arr |-> None, is_dirty |-> FALSE,
     body |-> NoneObj, num_hits |-> None]
Idle == [Request("idle", Params("", "")) EXCEPT !.pc = "idle"]

\* the handler raises, or returns a response of the given status
return(rq, status) ==
    [rq EXCEPT !.pc = "done", !.status = status, !.selection = <<>>, !.chunk_arr = None]
raise(rq, exception) == return(rq, exception)
respond(rq, status_code) == return(rq, status_code)
\* what a request has called so far
did(rq, call) == [rq EXCEPT !.did = @ \cup {call}]
await(rq, call) == [rq EXCEPT !.pc = call]

\* the node as one handler step sees it and leaves it
World(r) == [cache |-> chunk_cache, stor |-> storage, filters |-> filter_map, rq |-> req[r]]
Becomes(r, w) ==
    /\ chunk_cache' = w.cache
    /\ storage' = w.stor
    /\ filter_map' = w.filters
    /\ req' = [req EXCEPT ![r] = w.rq]

(***************************************************************************)
(* DELETE_Chunk                                                            *)
(***************************************************************************)
\* a DELETE_Chunk that does not look at the partition of the chunk
DELETE_Chunk_start_anywhere(w) ==
    LET p == w.rq.params IN
    IF p.chunk_id = "" \/ ~isValidUuid(p.chunk_id) THEN [w EXCEPT !.rq = raise(@, "HTTPBadRequest")]
    ELSE IF p.bucket = Absent THEN [w EXCEPT !.rq = raise(@, "UnboundLocalError")]
    ELSE IF p.bucket = "" \/ ~isValidBucketName(p.bucket)
    THEN [w EXCEPT !.rq = raise(@, "HTTPBadRequest")]
    ELSE [w EXCEPT !.cache = Del(@, p.chunk_id),
                   !.filters = Del(@, getDatasetId(p.chunk_id)),
                   !.rq = await(did(@, "del"), "isStorObj")]
\* lines 830-881, up to the call of isStorObj
DELETE_Chunk_start(w) ==
    LET p == w.rq.params IN
    IF p.chunk_id = "" THEN [w EXCEPT !.rq = raise(@, "HTTPBadRequest")]
    ELSE IF ~isValidUuid(p.chunk_id) THEN [w EXCEPT !.rq = raise(@, "HTTPBadRequest")]
    \* bucket is bound only if the parameter is there, lines 847-850
    ELSE IF p.bucket = Absent THEN [w EXCEPT !.rq = raise(@, "UnboundLocalError")]
    ELSE IF p.bucket = "" THEN [w EXCEPT !.rq = raise(@, "HTTPBadRequest")]
    ELSE IF ~isValidBucketName(p.bucket) THEN [w EXCEPT !.rq = raise(@, "HTTPBadRequest")]
    ELSE IF ~validateInPartition(p.chunk_id)
    THEN [w EXCEPT !.rq = raise(@, "HTTPInternalServerError")]
    ELSE [w EXCEPT !.cache = Del(@, p.chunk_id),
                   !.filters = Del(@, getDatasetId(p.chunk_id)),
                   !.rq = await(did(@, "del"), "isStorObj")]

DELETE_Chunk_isStorObj_absent(w) == [w EXCEPT !.rq = respond(did(@, "isStorObj"), "200")]

\* lines 881-890
DELETE_Chunk_isStorObj(w) ==
    IF w.rq.params.chunk_id \in DOMAIN w.stor
    THEN [w EXCEPT !.rq = await(did(@, "isStorObj"), "deleteStorObj")]
    ELSE [w EXCEPT !.rq = respond(did(@, "isStorObj"), "200")]

\* a DELETE_Chunk that removes the storage objects of all chunks
DELETE_Chunk_deleteStorObj_all(w) ==
    [w EXCEPT !.stor = EmptyMap, !.rq = respond(did(@, "deleteStorObj"), "200")]
DELETE_Chunk_deleteStorObj(w) ==
    [w EXCEPT !.stor = Del(@, w.rq.params.chunk_id),
              !.rq = respond(did(@, "deleteStorObj"), "200")]

(***************************************************************************)
(* get_chunk, save_chunk and the kernels, as the handlers use them         *)
(***************************************************************************)
\* what get_metadata_obj returns for dataset d-1
H5T_VARIABLE == 0
getChunkLayout(json) == json.layout
getChunkInitializer(json) == json.initializer
itemsizeOf(json) == json.size

\* the chunk array comes from the cache, else from storage, else, if chunk_init is
\* set, it is initialized; else there is none
get_chunk(w) ==
    LET chunk_id == w.rq.params.chunk_id
        w1 == [w EXCEPT !.rq = did(@, "get_chunk")]
    IN  IF chunk_id \in DOMAIN w.cache
        THEN [w1 EXCEPT !.rq.chunk_arr = w.cache[chunk_id]]
        ELSE IF chunk_id \in DOMAIN w.stor
        THEN [w1 EXCEPT !.cache = Put(@, chunk_id, w.stor[chunk_id]),
                        !.rq.chunk_arr = w.stor[chunk_id]]
        ELSE IF w.rq.chunk_init
        THEN [w1 EXCEPT !.cache = Put(@, chunk_id, 0),
                        !.rq.chunk_arr = 0,
                        !.rq.did = @ \cup {"chunk_init"}]
        ELSE w1

\* the chunk array is kept in the cache and written back to storage
save_chunk(w) ==
    [w EXCEPT !.cache = Put(@, w.rq.params.chunk_id, w.rq.chunk_arr),
              !.stor = Put(@, w.rq.params.chunk_id, w.rq.chunk_arr),
              !.rq = did(@, "save_chunk")]

\* a kernel writes data into the chunk array, which is the array the cache holds
write(w, kernel, data) ==
    LET chunk_id == w.rq.params.chunk_id
        changed == w.rq.chunk_arr # data
    IN  [w EXCEPT !.cache = IF chunk_id \in DOMAIN @ THEN Put(@, chunk_id, data) ELSE @,
                  !.rq.chunk_arr = data,
                  !.rq.is_dirty = changed,
                  !.rq.did = @ \cup {kernel} \cup (IF changed THEN {"mutated"} ELSE {})]

\* BooleanParser accepts the query
validQuery(query) == query = "x > 1"

(***************************************************************************)
(* PUT_Chunk                                                               *)
(***************************************************************************)
\* a mutant: the room in the cache is not looked at
cacheFull_never(chunk_id, cache) == FALSE

\* the test of line 123
cacheFull(chunk_id, cache) == chunk_id \notin DOMAIN cache /\ memFree(cache) < min_chunk_size

\* a PUT_Chunk that takes the room of its chunk as soon as it has passed the test
admitted_reserving(w) ==
    [w EXCEPT !.cache = IF w.rq.params.chunk_id \in DOMAIN @ THEN @
                        ELSE Put(@, w.rq.params.chunk_id, 0),
              !.rq = await(@, "get_metadata_obj")]
\* lines 126-129: past the test the handler awaits get_metadata_obj, the cache as it was
admitted(w) == [w EXCEPT !.rq = await(@, "get_metadata_obj")]

\* lines 41-129, up to the call of get_metadata_obj
PUT_Chunk_start(w) ==
    LET p == w.rq.params IN
    IF p.chunk_id = "" THEN [w EXCEPT !.rq = raise(@, "HTTPBadRequest")]
    ELSE IF ~isValidUuid(p.chunk_id) THEN [w EXCEPT !.rq = raise(@, "HTTPBadRequest")]
    ELSE IF ~p.has_body THEN [w EXCEPT !.rq = raise(@, "HTTPBadRequest")]
    ELSE IF p.bucket \in {Absent, ""} THEN [w EXCEPT !.rq = raise(@, "HTTPInternalServerError")]
    ELSE IF ~isValidBucketName(p.bucket) THEN [w EXCEPT !.rq = raise(@, "HTTPBadRequest")]
    ELSE IF ~validateInPartition(p.chunk_id)
    THEN [w EXCEPT !.rq = raise(@, "HTTPInternalServerError")]
    ELSE IF p.dset THEN [w EXCEPT !.rq = raise(@, "HTTPBadRequest")]
    ELSE IF cacheFull(p.chunk_id, w.cache)
    THEN [w EXCEPT !.rq = raise(@, "HTTPServiceUnavailable")]
    ELSE admitted(w)

\* lines 129-182, up to the call of get_chunk
PUT_Chunk_get_metadata_obj(w) ==
    LET p == w.rq.params
        rq == did(w.rq, "get_metadata_obj")
        selection == getSelectionList(p.select, getChunkLayout(dset_json))
    IN  IF ~Returned(selection) THEN [w EXCEPT !.rq = raise(rq, "HTTPInternalServerError")]
        ELSE
        LET mshape == getSelectionShape(selection.value)
            chunk_init == getChunkInitializer(dset_json) \/ p.query = Absent
        IN  IF ~Returned(mshape) THEN [w EXCEPT !.rq = raise(rq, mshape.raised)]
            ELSE [w EXCEPT !.rq = await([rq EXCEPT !.selection = selection.value,
                                                   !.chunk_init = chunk_init], "get_chunk")]

\* lines 182-214 for a query, lines 182-275 else
PUT_Chunk_get_chunk(w) ==
    LET p == w.rq.params
        w1 == get_chunk(w)
        num_elements == prod(getSelectionShape(w.rq.selection).value)
        itemsize == itemsizeOf(dset_json)
        actual == p.content_length
    IN  IF w1.rq.chunk_arr = None
        THEN [w1 EXCEPT !.rq = raise(@, IF w.rq.chunk_init THEN "HTTPInternalServerError"
                                        ELSE "HTTPNotFound")]
        ELSE IF p.query # Absent
        THEN IF ~dset_json.fields THEN [w1 EXCEPT !.rq = raise(@, "HTTPInternalServerError")]
             ELSE IF Len(getChunkLayout(dset_json)) # 1
             THEN [w1 EXCEPT !.rq = raise(@, "HTTPInternalServerError")]
             ELSE IF ~validQuery(p.query)
             THEN [w1 EXCEPT !.rq = raise(@, "HTTPInternalServerError")]
             ELSE [w1 EXCEPT !.rq = await(@, "json")]
        ELSE IF itemsize # H5T_VARIABLE /\ actual = 0
        THEN [w1 EXCEPT !.rq = raise(@, "ZeroDivisionError")]
        ELSE IF itemsize # H5T_VARIABLE /\ (num_elements * itemsize) % actual # 0
        THEN [w1 EXCEPT !.rq = raise(@, "HTTPBadRequest")]
        ELSE [w1 EXCEPT !.rq = await(@, "request_read")]

foundHits_always(num_hits) == TRUE

\* line 239: the chunk is saved when the query kernel gave rows
foundHits(num_hits) == num_hits > 0

\* lines 214-246, up to the writing of the response: body is what request.json() gives,
\* hits what chunkQuery does
PUT_Chunk_json(w, body, hits) ==
    IF body = NoneObj THEN [w EXCEPT !.rq = raise(@, "HTTPBadRequest")]
    ELSE IF hits \in {"TypeError", "ValueError"} THEN [w EXCEPT !.rq = raise(@, "HTTPBadRequest")]
    ELSE
    LET num_hits == IF hits = "rows" THEN 1 ELSE 0
        w1 == IF num_hits > 0 THEN write(w, "chunkQuery", body.value)
              ELSE [w EXCEPT !.rq = did(@, "chunkQuery")]
        w2 == [w1 EXCEPT !.rq.num_hits = num_hits]
    IN  IF foundHits(num_hits)
        THEN [save_chunk([w2 EXCEPT !.rq.is_dirty = TRUE]) EXCEPT !.rq = await(@, "resp.write")]
        ELSE [w2 EXCEPT !.rq = await(@, "resp.write")]

\* lines 247-258, and lines 559-569 and 815-825 of the other handlers
resp_write(w, written) ==
    IF written THEN [w EXCEPT !.rq = respond(did(@, "resp.write"), "200")]
    ELSE [w EXCEPT !.rq = raise(did(@, "resp.write"), "HTTPInternalServerError")]

\* a write-back after every write
writeBack_always(is_dirty, always) == TRUE
\* the test of line 306
writeBack(is_dirty, always) == is_dirty \/ always

\* a PUT_Chunk that gives up when its chunk has left the cache while it read the payload
PUT_Chunk_request_read_resident(w, input) ==
    LET p == w.rq.params
        num_elements == prod(getSelectionShape(w.rq.selection).value)
        itemsize == itemsizeOf(dset_json)
    IN  IF input.len # p.content_length \/ p.chunk_id \notin DOMAIN w.cache
        THEN [w EXCEPT !.rq = raise(@, "HTTPInternalServerError")]
        ELSE IF itemsize # H5T_VARIABLE /\ input.len # num_elements * itemsize
        THEN [w EXCEPT !.rq = raise(@, "HTTPBadRequest")]
        ELSE LET w1 == write(w, "chunkWriteSelection", input.data) IN
             IF writeBack(w1.rq.is_dirty, write_zero_chunks)
             THEN [save_chunk(w1) EXCEPT !.rq = respond(@, "201")]
             ELSE [w1 EXCEPT !.rq = respond(@, "200")]
\* lines 275-314: input is the length and the content of what request_read gives
PUT_Chunk_request_read(w, input) ==
    LET p == w.rq.params
        num_elements == prod(getSelectionShape(w.rq.selection).value)
        itemsize == itemsizeOf(dset_json)
    IN  IF input.len # p.content_length
        THEN [w EXCEPT !.rq = raise(@, "HTTPInternalServerError")]
        \* bytesToArray takes num_elements items of itemsize bytes
        ELSE IF itemsize # H5T_VARIABLE /\ input.len # num_elements * itemsize
        THEN [w EXCEPT !.rq = raise(@, "HTTPBadRequest")]
        ELSE LET w1 == write(w, "chunkWriteSelection", input.data) IN
             IF writeBack(w1.rq.is_dirty, write_zero_chunks)
             THEN [save_chunk(w1) EXCEPT !.rq = respond(@, "201")]
             ELSE [w1 EXCEPT !.rq = respond(@, "200")]

(***************************************************************************)
(* GET_Chunk                                                               *)
(***************************************************************************)
\* lines 317-433, up to the call of get_metadata_obj
GET_Chunk_start(w) ==
    LET p == w.rq.params IN
    IF p.chunk_id = "" THEN [w EXCEPT !.rq = raise(@, "HTTPBadRequest")]
    ELSE IF ~isValidUuid(p.chunk_id) THEN [w EXCEPT !.rq = raise(@, "HTTPBadRequest")]
    ELSE IF ~validateInPartition(p.chunk_id)
    THEN [w EXCEPT !.rq = raise(@, "HTTPInternalServerError")]
    ELSE IF p.bucket \in {Absent, ""} THEN [w EXCEPT !.rq = raise(@, "HTTPBadRequest")]
    ELSE IF ~isValidBucketName(p.bucket) THEN [w EXCEPT !.rq = raise(@, "HTTPBadRequest")]
    ELSE [w EXCEPT !.rq = await(@, "get_metadata_obj")]

\* lines 433-479, up to the call of get_chunk
GET_Chunk_get_metadata_obj(w) ==
    LET rq == did(w.rq, "get_metadata_obj")
        selection == getSelectionList(w.rq.params.select, getChunkLayout(dset_json))
    IN  IF ~Returned(selection) THEN [w EXCEPT !.rq = raise(rq, "HTTPInternalServerError")]
        ELSE [w EXCEPT !.rq = await([rq EXCEPT !.selection = selection.value,
                                               !.chunk_init = getChunkInitializer(dset_json)],
                                    "get_chunk")]

\* the read kernels derive the shape of the selection
readSelection(w, kernel) ==
    LET mshape == getSelectionShape(w.rq.selection) IN
    IF ~Returned(mshape) THEN [w EXCEPT !.rq = raise(did(@, kernel), mshape.raised)]
    ELSE [w EXCEPT !.rq = await(did(@, kernel), "resp.write")]

noMatches_never(num_hits) == FALSE

\* line 544: output_arr is None or has no row
noMatches(num_hits) == num_hits = 0

\* lines 479-557, up to the writing of the response: rows is what chunkQuery does
GET_Chunk_get_chunk(w, rows) ==
    LET p == w.rq.params
        w1 == get_chunk(w)
        w2 == IF w.rq.chunk_init THEN save_chunk(w1) ELSE w1
    IN  IF w1.rq.chunk_arr = None THEN [w1 EXCEPT !.rq = raise(@, "HTTPNotFound")]
        ELSE IF p.query # Absent
        THEN IF ~validQuery(p.query) THEN [w2 EXCEPT !.rq = raise(@, "HTTPInternalServerError")]
             ELSE IF rows \in {"TypeError", "ValueError"}
             THEN [w2 EXCEPT !.rq = raise(did(@, "chunkQuery"), "HTTPBadRequest")]
             ELSE
             LET num_hits == IF rows = "rows" THEN 1 ELSE 0
                 w3 == [w2 EXCEPT !.rq = did([@ EXCEPT !.num_hits = num_hits], "chunkQuery")]
             IN  IF noMatches(num_hits) THEN [w3 EXCEPT !.rq = raise(@, "HTTPNotFound")]
                 ELSE [w3 EXCEPT !.rq = await(@, "resp.write")]
        ELSE readSelection(w2, "chunkReadSelection")

(***************************************************************************)
(* POST_Chunk                                                              *)
(***************************************************************************)
\* lines 578-681, up to the call of get_metadata_obj
POST_Chunk_start(w) ==
    LET p == w.rq.params IN
    IF ~p.count /\ p.content_type = "binary" THEN [w EXCEPT !.rq = raise(@, "HTTPBadRequest")]
    ELSE IF p.bucket = Absent THEN [w EXCEPT !.rq = raise(@, "HTTPBadRequest")]
    ELSE IF ~isValidBucketName(p.bucket) THEN [w EXCEPT !.rq = raise(@, "HTTPBadRequest")]
    ELSE IF p.chunk_id = "" THEN [w EXCEPT !.rq = raise(@, "HTTPBadRequest")]
    ELSE IF ~isValidUuid(p.chunk_id) THEN [w EXCEPT !.rq = raise(@, "HTTPBadRequest")]
    ELSE IF ~validateInPartition(p.chunk_id)
    THEN [w EXCEPT !.rq = raise(@, "HTTPInternalServerError")]
    ELSE IF p.dset THEN [w EXCEPT !.rq = raise(@, "HTTPBadRequest")]
    ELSE IF ~p.has_body THEN [w EXCEPT !.rq = raise(@, "HTTPBadRequest")]
    ELSE [w EXCEPT !.rq = await(@, "get_metadata_obj")]

put_points_never(rq) == FALSE

\* lines 606-611: the request writes points
put_points(rq) == rq.params.action = "put"

\* lines 681-707 for a binary body, lines 681-731 else
POST_Chunk_get_metadata_obj(w) ==
    LET rq == did(w.rq, "get_metadata_obj")
        chunk_init == getChunkInitializer(dset_json) \/ put_points(rq)
    IN  [w EXCEPT !.rq = await([rq EXCEPT !.chunk_init = chunk_init],
                               IF rq.params.content_type = "binary" THEN "request_read"
                               ELSE "json")]

\* point_arr, once bytesToArray has returned it
point_arr == [type |-> "ndarray"]

\* lines 707-758: input is the length of what request_read gives and whether
\* bytesToArray takes it
POST_Chunk_request_read(w, input) ==
    IF input = "short" THEN [w EXCEPT !.rq = raise(@, "HTTPInternalServerError")]
    ELSE IF input = "ValueError" THEN [w EXCEPT !.rq = raise(@, "ValueError")]
    ELSE [w EXCEPT !.rq = await([@ EXCEPT !.body = point_arr], "get_chunk")]

\* lines 731-758: body is what request.json() gives
POST_Chunk_json(w, body) ==
    IF ~has(body, "select") THEN [w EXCEPT !.rq = raise(@, "HTTPBadRequest")]
    ELSE [w EXCEPT !.rq = await([@ EXCEPT !.body = body], "get_chunk")]

\* lines 758-813, up to the writing of the response: points is what the point
\* kernel does, data what it writes
POST_Chunk_get_chunk(w, points, data) ==
    LET w1 == get_chunk(w)
        w2 == IF w.rq.chunk_init /\ ~put_points(w.rq) THEN save_chunk(w1) ELSE w1
        body == w.rq.body
    IN  IF w1.rq.chunk_arr = None THEN [w1 EXCEPT !.rq = raise(@, "HTTPNotFound")]
        ELSE IF put_points(w.rq)
        \* point_arr is bound only if the body is binary, lines 705-728
        THEN IF body # point_arr THEN [w2 EXCEPT !.rq = raise(@, "UnboundLocalError")]
             ELSE IF points = "ValueError"
             THEN [w2 EXCEPT !.rq = raise(did(@, "chunkWritePoints"), "HTTPBadRequest")]
             ELSE [save_chunk(write(w2, "chunkWritePoints", data))
                      EXCEPT !.rq = respond(@, "200")]
        ELSE IF body # point_arr /\ body.select # <<>>
        THEN LET selection == getSelectionList(strSelect(body.select),
                                               getChunkLayout(dset_json))
             IN  IF ~Returned(selection)
                 THEN [w2 EXCEPT !.rq = raise(@, "HTTPInternalServerError")]
                 ELSE readSelection([w2 EXCEPT !.rq.selection = selection.value],
                                    "chunkReadSelection")
        ELSE IF body # point_arr THEN [w2 EXCEPT !.rq = raise(@, "UnboundLocalError")]
        ELSE IF points = "ValueError"
        THEN [w2 EXCEPT !.rq = raise(did(@, "chunkReadPoints"), "HTTPBadRequest")]
        ELSE [w2 EXCEPT !.rq = await(did(@, "chunkReadPoints"), "resp.write")]

(***************************************************************************)
(* Requests and calls that reach the data node                             *)
(***************************************************************************)
\* maps from some of the keys to the values
Maps(keys, values) == UNION {[ks -> values] : ks \in SUBSET keys}

\* the node as the handler finds it when the request arrives in slot r
Arriving(r, handler, params) == [World(r) EXCEPT !.rq = Request(handler, params)]

\* a request arrives in a free slot and runs up to its first await, which leaves w
Arrives(r, w) ==
    /\ req[r].pc \in {"idle", "done"}
    /\ Becomes(r, w)
    /\ first_ops' = IF "del" \in w.rq.did
                    THEN Del(first_ops, getDatasetId(w.rq.params.chunk_id))
                    ELSE first_ops
    /\ UNCHANGED <<callVars, iterVars, dset_json, write_zero_chunks>>

\* the call that a request awaits completes and the request runs up to its next
\* await, which leaves w
Resumes(r, handlers, call, w) ==
    /\ req[r].handler \in handlers
    /\ req[r].pc = call
    /\ Becomes(r, w)
    /\ UNCHANGED <<callVars, iterVars, dset_json, write_zero_chunks, first_ops>>

DeleteParams ==
    {Params(c, "bucket") : c \in ChunkIds \cup BadIds}
    \cup {Params("c-1_0", b) : b \in BadBuckets}

DELETE_Chunk(r, params) ==
    \E p \in params : Arrives(r, DELETE_Chunk_start(Arriving(r, "DELETE_Chunk", p)))
DELETE_Chunk_2(r) == Resumes(r, {"DELETE_Chunk"}, "isStorObj", DELETE_Chunk_isStorObj(World(r)))
DELETE_Chunk_3(r) == Resumes(r, {"DELETE_Chunk"}, "deleteStorObj", DELETE_Chunk_deleteStorObj(World(r)))

(***************************************************************************)
(* Calls of getFilterOps on a data node that also serves DELETE_Chunk      *)
(***************************************************************************)
\* declared filters: none, a shuffle, a compression, a shuffle entry without its name,
\* a bitshuffle before two compressions
FilterLists ==
    {<<>>,
     <<[class |-> "H5Z_FILTER_SHUFFLE", id |-> 2, name |-> "shuffle"]>>,
     <<[class |-> "H5Z_FILTER_DEFLATE", id |-> 1, name |-> "gzip", level |-> 9]>>,
     <<[class |-> "H5Z_FILTER_LZ4", id |-> 32004],
       [class |-> "H5Z_FILTER_SHUFFLE", id |-> 2]>>,
     <<[class |-> "H5Z_FILTER_BITSHUFFLE", id |-> 32008, name |-> "bitshuffle"],
       [class |-> "H5Z_FILTER_USER", id |-> 32015, name |-> "zstd"],
       [class |-> "H5Z_FILTER_DEFLATE", id |-> 1, name |-> "gzip", level |-> 9]>>}
Dtypes == {NoneObj, [type |-> "dtype", vlen |-> FALSE], [type |-> "dtype", vlen |-> TRUE]}
ChunkShapes == {NoneObj, [type |-> "tuple", dims |-> <<MaxExtent>>]}
\* every call for d-1; for d-2 the calls that differ in the declared filters only
FilterArgs ==
    [dset_id : {"d-1"}, filters : FilterLists, dtype : Dtypes, chunk_shape : ChunkShapes]
    \cup [dset_id : {"d-2"}, filters : FilterLists, dtype : {[type |-> "dtype", vlen |-> FALSE]},
           chunk_shape : {NoneObj}]

InitFilter ==
    /\ args = EmptyMap
    /\ result = Raise("pending")
    /\ pc = "idle"
    /\ NoIterator
    /\ chunk_cache = EmptyMap
    /\ storage \in Maps({"c-1_0"}, {0})
    /\ filter_map = EmptyMap
    /\ dset_json = EmptyMap
    /\ write_zero_chunks = FALSE
    /\ req = [r \in Reqs |-> Idle]
    /\ first_ops = EmptyMap

\* one call of getFilterOps; first_ops keeps what the first call that returned gave
getFilterOpsCalled(calls) ==
    \E a \in calls :
        LET out == getFilterOps(filter_map, a.dset_id, a.filters, a.dtype, a.chunk_shape) IN
        /\ args' = a
        /\ result' = out.result
        /\ pc' = "called"
        /\ filter_map' = out.filter_map
        /\ first_ops' = IF Returned(out.result) /\ a.dset_id \notin DOMAIN first_ops
                        THEN Put(first_ops, a.dset_id, out.result.value)
                        ELSE first_ops
        /\ UNCHANGED <<iterVars, chunk_cache, storage, dset_json, write_zero_chunks, req>>

CallFilterOps == getFilterOpsCalled(FilterArgs)

NextFilter ==
    \/ CallFilterOps
    \/ DELETE_Chunk(1, {Params(c, "bucket") : c \in {"c-1_0", "x"}})
    \/ DELETE_Chunk_2(1)
    \/ DELETE_Chunk_3(1)

SpecFilter == InitFilter /\ [][NextFilter]_vars

(***************************************************************************)
(* The data node serving one request after the other                       *)
(***************************************************************************)
\* selections as the requests write them: none, a range, a range that ends before it
\* starts, two ranges, coordinate lists of two lengths
ChunkSelects ==
    {NoSelect}
    \cup {strSelect(selectText(w)) :
            w \in {<<[form |-> "range", start |-> Given(0), stop |-> Given(2),
                      step |-> Omitted, colons |-> 1]>>,
                   <<[form |-> "range", start |-> Given(2), stop |-> Given(1),
                      step |-> Omitted, colons |-> 1]>>,
                   <<[form |-> "range", start |-> Given(0), stop |-> Given(2),
                      step |-> Omitted, colons |-> 1],
                     [form |-> "range", start |-> Omitted, stop |-> Omitted,
                      step |-> Omitted, colons |-> 1]>>,
                   <<[form |-> "coords", coords |-> <<0, 1>>],
                     [form |-> "coords", coords |-> <<0>>]>>}}
Queries == {"x > 1", "x >"}
ContentLengths == {0, 2, MaxExtent}

\* dataset descriptors: plain, compound, with an initializer, of rank two, of
\* variable-length elements
DsetJsons ==
    {[layout |-> <<MaxExtent>>, size |-> 1, fields |-> FALSE, initializer |-> FALSE],
     [layout |-> <<MaxExtent>>, size |-> 2, fields |-> TRUE, initializer |-> FALSE],
     [layout |-> <<MaxExtent>>, size |-> 1, fields |-> FALSE, initializer |-> TRUE],
     [layout |-> <<2, MaxExtent>>, size |-> 1, fields |-> TRUE, initializer |-> FALSE],
     [layout |-> <<MaxExtent>>, size |-> H5T_VARIABLE, fields |-> FALSE, initializer |-> FALSE]}

\* requests with one thing wrong in what is validated first
FaultyParams ==
    {Params("c-1_0", b) : b \in BadBuckets}
    \cup {Params(c, "bucket") : c \in BadIds}
    \cup {[Params("c-1_0", "bucket") EXCEPT !.has_body = FALSE],
          [Params("c-1_0", "bucket") EXCEPT !.dset = TRUE],
          [Params("c-1_0", "bucket") EXCEPT !.count = FALSE]}

\* every kind of request for chunk c-1_0, requests without select and query for c-1_1
PutParams ==
    {[Params("c-1_0", "bucket") EXCEPT !.select = s, !.content_length = n] :
        s \in ChunkSelects, n \in ContentLengths}
    \cup {[Params("c-1_0", "bucket") EXCEPT !.select = s, !.query = q] :
        s \in ChunkSelects, q \in Queries}
    \cup {[Params("c-1_1", "bucket") EXCEPT !.content_length = MaxExtent]}
    \cup FaultyParams
GetParams ==
    {[Params("c-1_0", "bucket") EXCEPT !.select = s, !.query = q] :
        s \in ChunkSelects, q \in {Absent} \cup Queries}
    \cup {Params("c-1_1", "bucket")}
    \cup FaultyParams
PostParams ==
    {[Params("c-1_0", "bucket") EXCEPT !.content_type = t, !.action = a] :
        t \in {"binary", "json"}, a \in {Absent, "put"}}
    \cup {Params("c-1_1", "bucket")}
    \cup FaultyParams
\* what request.json() gives to POST_Chunk
PostBodies ==
    {[fields |-> <<"x">>]} \cup {[select |-> s.text] : s \in ChunkSelects \ {NoSelect}}
    \cup {[select |-> <<>>]}
\* what request.json() gives to PUT_Chunk
QueryUpdates == {NoneObj} \cup {[value |-> v] : v \in Arrays}

PUT_Chunk(r) == \E p \in PutParams : Arrives(r, PUT_Chunk_start(Arriving(r, "PUT_Chunk", p)))
PUT_Chunk_2(r) == Resumes(r, {"PUT_Chunk"}, "get_metadata_obj", PUT_Chunk_get_metadata_obj(World(r)))
PUT_Chunk_3(r) == Resumes(r, {"PUT_Chunk"}, "get_chunk", PUT_Chunk_get_chunk(World(r)))
PUT_Chunk_4(r) ==
    \E body \in QueryUpdates, hits \in {"TypeError", "ValueError", "none", "rows"} :
        Resumes(r, {"PUT_Chunk"}, "json", PUT_Chunk_json(World(r), body, hits))
PUT_Chunk_5(r) ==
    \E len \in {req[r].params.content_length, 1}, data \in Arrays :
        Resumes(r, {"PUT_Chunk"}, "request_read",
                PUT_Chunk_request_read(World(r), [len |-> len, data |-> data]))

GET_Chunk(r) == \E p \in GetParams : Arrives(r, GET_Chunk_start(Arriving(r, "GET_Chunk", p)))
GET_Chunk_2(r) == Resumes(r, {"GET_Chunk"}, "get_metadata_obj", GET_Chunk_get_metadata_obj(World(r)))
GET_Chunk_3(r) ==
    \E rows \in {"TypeError", "ValueError", "none", "rows"} :
        Resumes(r, {"GET_Chunk"}, "get_chunk", GET_Chunk_get_chunk(World(r), rows))

POST_Chunk(r) == \E p \in PostParams : Arrives(r, POST_Chunk_start(Arriving(r, "POST_Chunk", p)))
POST_Chunk_2(r) == Resumes(r, {"POST_Chunk"}, "get_metadata_obj", POST_Chunk_get_metadata_obj(World(r)))
POST_Chunk_3(r) ==
    \E input \in {"short", "ValueError", "points"} :
        Resumes(r, {"POST_Chunk"}, "request_read", POST_Chunk_request_read(World(r), input))
POST_Chunk_4(r) ==
    \E body \in PostBodies :
        Resumes(r, {"POST_Chunk"}, "json", POST_Chunk_json(World(r), body))
POST_Chunk_5(r) ==
    \E points \in {"ValueError", "done"}, data \in Arrays :
        Resumes(r, {"POST_Chunk"}, "get_chunk", POST_Chunk_get_chunk(World(r), points, data))

\* the response is written, or the connection fails
Responds(r) ==
    \E written \in BOOLEAN :
        Resumes(r, {"PUT_Chunk", "GET_Chunk", "POST_Chunk"}, "resp.write",
                resp_write(World(r), written))

InitChunk ==
    /\ args = EmptyMap
    /\ result = Raise("pending")
    /\ pc = "idle"
    /\ NoIterator
    /\ chunk_cache = EmptyMap
    /\ storage \in Maps(ChunkIds, Arrays)
    /\ filter_map = EmptyMap
    /\ dset_json \in DsetJsons
    /\ write_zero_chunks \in BOOLEAN
    /\ req = [r \in Reqs |-> Idle]
    /\ first_ops = EmptyMap

NextChunk ==
    \/ PUT_Chunk(1) \/ PUT_Chunk_2(1) \/ PUT_Chunk_3(1) \/ PUT_Chunk_4(1) \/ PUT_Chunk_5(1)
    \/ GET_Chunk(1) \/ GET_Chunk_2(1) \/ GET_Chunk_3(1)
    \/ POST_Chunk(1) \/ POST_Chunk_2(1) \/ POST_Chunk_3(1) \/ POST_Chunk_4(1) \/ POST_Chunk_5(1)
    \/ Responds(1)
    \/ DELETE_Chunk(1, DeleteParams) \/ DELETE_Chunk_2(1) \/ DELETE_Chunk_3(1)

SpecChunk == InitChunk /\ [][NextChunk]_vars

(***************************************************************************)
(* Claims on the handlers                                                  *)
(***************************************************************************)
\* a step in which a request arrives in slot r
ArrivesIn(r) == req[r].pc \in {"idle", "done"} /\ req'[r] # req[r]
\* chunk id, bucket and parameters pass the validation that every handler starts with
WellFormed(p) == p.chunk_id \in ChunkIds /\ p.bucket = "bucket" /\ p.has_body /\ ~p.dset
\* the calls that load the descriptor, fetch or initialize the chunk, change or save it
Accesses ==
    {"get_metadata_obj", "get_chunk", "chunk_init", "mutated", "save_chunk",
     "chunkWriteSelection", "chunkQuery"}

\* C3: a well-formed PUT_Chunk for a chunk that is not in the cache, arriving while
\* memFree < min_chunk_size, ends with HTTPServiceUnavailable and has loaded no dataset
\* descriptor, fetched no chunk, changed no buffer and written nothing back; a PUT_Chunk
\* for a resident chunk is not ended that way, however little room is free
C3_AdmissionControl ==
    [][\A r \in Reqs :
        (ArrivesIn(r) /\ req'[r].handler = "PUT_Chunk" /\ WellFormed(req'[r].params)) =>
            LET chunk_id == req'[r].params.chunk_id IN
            /\ (chunk_id \notin DOMAIN chunk_cache /\ memFree(chunk_cache) < min_chunk_size)
                  => /\ req'[r].pc = "done"
                     /\ req'[r].status = "HTTPServiceUnavailable"
                     /\ req'[r].did \cap Accesses = {}
                     /\ UNCHANGED <<chunk_cache, storage>>
            /\ chunk_id \in DOMAIN chunk_cache
                  => req'[r].status # "HTTPServiceUnavailable"]_vars

\* a PUT_Chunk for c-1_0 was turned away while the cache held the other chunk only
C3_Witness ==
    /\ req[1].handler = "PUT_Chunk"
    /\ req[1].pc = "done"
    /\ req[1].status = "HTTPServiceUnavailable"
    /\ req[1].params.chunk_id = "c-1_0"
    /\ DOMAIN chunk_cache = {"c-1_1"}
    /\ memFree(chunk_cache) < min_chunk_size

\* a PUT_Chunk for a resident chunk went on to load the descriptor although the cache
\* had less than min_chunk_size free
ResidentAdmitted ==
    /\ req[1].handler = "PUT_Chunk"
    /\ req[1].pc = "get_metadata_obj"
    /\ req[1].params.chunk_id \in DOMAIN chunk_cache
    /\ memFree(chunk_cache) < min_chunk_size

\* the selection string of a request, once the handler has it
selectOf(rq) ==
    IF rq.handler = "POST_Chunk"
    THEN IF has(rq.body, "select") THEN strSelect(rq.body.select) ELSE NoSelect
    ELSE rq.params.select
\* the selection does not parse against the chunk layout, or its shape cannot be derived
BadSelection(select) ==
    LET selection == getSelectionList(select, getChunkLayout(dset_json)) IN
    ~Returned(selection) \/ ~Returned(getSelectionShape(selection.value))
\* a request that carries such a selection
BadSelectionRequest(rq) ==
    /\ rq.handler \in {"GET_Chunk", "PUT_Chunk", "POST_Chunk"}
    /\ rq.handler = "POST_Chunk" => (has(rq.body, "select") /\ ~put_points(rq))
    /\ WellFormed(rq.params)
    /\ BadSelection(selectOf(rq))

\* C4: a GET_Chunk, PUT_Chunk or POST_Chunk whose selection does not parse, or has no
\* shape, fetches and initializes no chunk and saves none: no step of such a request
\* changes the cache or storage
C4_SelectionRejectedBeforeFetch ==
    [][\A r \in Reqs :
        (req'[r] # req[r] /\ BadSelectionRequest(req'[r])) =>
            /\ req'[r].did \cap {"get_chunk", "chunk_init", "save_chunk"} = {}
            /\ UNCHANGED <<chunk_cache, storage>>]_vars

\* PUT_Chunk does reject such a selection before it fetches the chunk
PutRejectsBeforeFetch ==
    [][\A r \in Reqs :
        (req'[r] # req[r] /\ req'[r].handler = "PUT_Chunk" /\ BadSelectionRequest(req'[r])) =>
            /\ req'[r].did \cap {"get_chunk", "chunk_init", "save_chunk"} = {}
            /\ UNCHANGED <<chunk_cache, storage>>]_vars

\* GET_Chunk rejects a selection that does not parse before it fetches the chunk
GetRejectsUnparsedBeforeFetch ==
    [][\A r \in Reqs :
        (/\ req'[r] # req[r]
         /\ req'[r].handler = "GET_Chunk"
         /\ WellFormed(req'[r].params)
         /\ ~Returned(getSelectionList(req'[r].params.select, getChunkLayout(dset_json)))) =>
            /\ req'[r].did \cap {"get_chunk", "chunk_init", "save_chunk"} = {}
            /\ UNCHANGED <<chunk_cache, storage>>]_vars

\* a POST_Chunk hyperslab read whose select did not parse has ended, and the chunk it
\* asked for was initialized, put in the cache and saved
PostLeftChunkBehind ==
    /\ req[1].handler = "POST_Chunk"
    /\ req[1].pc = "done"
    /\ req[1].status = "HTTPInternalServerError"
    /\ has(req[1].body, "select")
    /\ ~Returned(getSelectionList(strSelect(req[1].body.select), getChunkLayout(dset_json)))
    /\ {"chunk_init", "save_chunk"} \subseteq req[1].did
    /\ req[1].params.chunk_id \in DOMAIN chunk_cache
    /\ req[1].params.chunk_id \in DOMAIN storage

\* C10: while no DELETE_Chunk removes the entry of a dataset, every getFilterOps call for
\* the dataset returns what the first call that returned for it gave, whatever filters,
\* dtype or chunk shape the call passes; a first call without filters counts as well
C10_FirstResultWins ==
    (pc = "called" /\ args.dset_id \in DOMAIN first_ops)
        => result = Return(first_ops[args.dset_id])

\* a call that declares a compression filter, after a first call that declared no filter
\* and gave another dtype, is answered with the descriptor of the first call
C10_Witness ==
    /\ pc = "called"
    /\ args.dset_id = "d-1"
    /\ "d-1" \in DOMAIN first_ops
    /\ args.filters = <<[class |-> "H5Z_FILTER_DEFLATE", id |-> 1, name |-> "gzip", level |-> 9]>>
    /\ result = Return(first_ops["d-1"])
    /\ first_ops["d-1"].shuffle = 0
    /\ ~has(first_ops["d-1"], "compressor")
    /\ first_ops["d-1"].dtype # args.dtype
    /\ first_ops["d-1"].chunk_shape # args.chunk_shape

\* a call that raises leaves no entry: the next call is resolved from its own arguments
FilterCallRaised ==
    /\ pc = "called"
    /\ ~Returned(result)
    /\ args.dset_id \notin DOMAIN filter_map

\* the declared filters hold neither a shuffle-class entry nor a compression entry
NoFilterDeclared(filters) ==
    /\ getCompressionFilter(filters) = Return(NoneObj)
    /\ getShuffleFilter(filters) = NoneObj

\* C11: a getFilterOps call for a dataset without an entry in filter_map, whose declared
\* filters hold neither a shuffle-class entry nor a compression entry, returns None and
\* stores no entry for the dataset
C11_NoFilterNoEntry ==
    [][(CallFilterOps /\ NoFilterDeclared(args'.filters)
            /\ args'.dset_id \notin DOMAIN filter_map)
        => (result' = Return(NoneObj) /\ args'.dset_id \notin DOMAIN filter_map')]_vars

\* what the code does with such a call: a descriptor with shuffle 0 is returned and stored
NoFilterCallStored ==
    /\ pc = "called"
    /\ NoFilterDeclared(args.filters)
    /\ Returned(result)
    /\ result.value.shuffle = 0
    /\ ~has(result.value, "compressor")
    /\ args.dset_id \in DOMAIN filter_map
    /\ filter_map[args.dset_id] = result.value

\* C12: a PUT_Chunk with a query whose kernel gave no row has its is_dirty flag unset and
\* has not called save_chunk, up to and including its completion
C12_NoHitsNoSave ==
    (req[1].handler = "PUT_Chunk" /\ req[1].num_hits = 0)
        => (~req[1].is_dirty /\ "save_chunk" \notin req[1].did)

\* such a request has run the query kernel and completed with a response
C12_Witness ==
    /\ req[1].handler = "PUT_Chunk"
    /\ req[1].params.query = "x > 1"
    /\ req[1].num_hits = 0
    /\ "chunkQuery" \in req[1].did
    /\ req[1].pc = "done"
    /\ req[1].status = "200"

\* the request in slot 1 has completed with a success response
Succeeded == req[1].pc = "done" /\ req[1].status \in {"200", "201"}

\* C13: a request whose get_chunk newly initialized the chunk (in neither cache nor
\* storage, chunk_init set) has called save_chunk by the time it completes with success,
\* also when its own write changed no element
C13_InitializedIsSaved ==
    (Succeeded /\ "chunk_init" \in req[1].did) => "save_chunk" \in req[1].did

\* GET_Chunk and POST_Chunk save the chunk whenever chunk_init is set
InitializedIsSavedByGetAndPost ==
    (Succeeded /\ "chunk_init" \in req[1].did /\ req[1].handler \in {"GET_Chunk", "POST_Chunk"})
        => "save_chunk" \in req[1].did

\* a PUT_Chunk that wrote zeros into a chunk it initialized answers 200 and leaves the
\* chunk in the cache only
PutLeftInitializedUnsaved ==
    /\ Succeeded
    /\ req[1].handler = "PUT_Chunk"
    /\ req[1].status = "200"
    /\ {"chunk_init", "chunkWriteSelection"} \subseteq req[1].did
    /\ ~req[1].is_dirty
    /\ ~write_zero_chunks
    /\ "save_chunk" \notin req[1].did
    /\ req[1].params.chunk_id \in DOMAIN chunk_cache
    /\ req[1].params.chunk_id \notin DOMAIN storage

\* the request in slot 1 has ended with an error
Failed ==
    /\ req[1].handler \in {"GET_Chunk", "PUT_Chunk", "POST_Chunk"}
    /\ req[1].pc = "done"
    /\ req[1].status \notin {"200", "201"}

\* C14: a GET_Chunk, PUT_Chunk or POST_Chunk that ended with an error has not called
\* save_chunk
C14_NoSaveOnFailure == Failed => "save_chunk" \notin req[1].did

\* a GET_Chunk on a dataset with an initializer saved the chunk it initialized and then
\* refused the query
GetSavedThenFailed ==
    /\ Failed
    /\ req[1].handler = "GET_Chunk"
    /\ req[1].params.query = "x >"
    /\ req[1].status = "HTTPInternalServerError"
    /\ {"chunk_init", "save_chunk"} \subseteq req[1].did
    /\ req[1].params.chunk_id \in DOMAIN storage

\* a PUT_Chunk query saved its update and then failed to write the response
PutSavedThenFailed ==
    /\ Failed
    /\ req[1].handler = "PUT_Chunk"
    /\ req[1].num_hits = 1
    /\ req[1].status = "HTTPInternalServerError"
    /\ {"mutated", "save_chunk"} \subseteq req[1].did

\* a POST_Chunk read on a dataset with an initializer saved the chunk and then failed
PostSavedThenFailed ==
    /\ Failed
    /\ req[1].handler = "POST_Chunk"
    /\ req[1].params.action = Absent
    /\ req[1].chunk_init
    /\ "save_chunk" \in req[1].did

\* the chunk layout has one dimension and the element type is compound
QueryAllowed == Len(getChunkLayout(dset_json)) = 1 /\ dset_json.fields

\* C15: a PUT_Chunk or GET_Chunk with a query reaches the query kernel only if the chunk
\* layout has one dimension and the element type is compound
C15_QueryNeedsCompoundRank1 ==
    (req[1].handler \in {"PUT_Chunk", "GET_Chunk"} /\ "chunkQuery" \in req[1].did)
        => QueryAllowed

\* PUT_Chunk tests both before it parses the query
PutQueryNeedsCompoundRank1 ==
    (req[1].handler = "PUT_Chunk" /\ "chunkQuery" \in req[1].did) => QueryAllowed

\* GET_Chunk has run the query kernel on a chunk of rank two, and on one of plain elements
GetQueriedRankTwo ==
    /\ req[1].handler = "GET_Chunk"
    /\ "chunkQuery" \in req[1].did
    /\ Len(getChunkLayout(dset_json)) = 2
GetQueriedPlain ==
    /\ req[1].handler = "GET_Chunk"
    /\ "chunkQuery" \in req[1].did
    /\ req[1].status = "200"
    /\ ~dset_json.fields

\* the operations for which the chunk may be initialized at the fetch
InitPermitted(rq) ==
    \/ getChunkInitializer(dset_json)
    \/ rq.handler = "PUT_Chunk" /\ rq.params.query = Absent
    \/ rq.handler = "POST_Chunk" /\ rq.params.action = "put"
\* the step in which the request of slot 1 calls get_chunk
Fetches == "get_chunk" \notin req[1].did /\ "get_chunk" \in req'[1].did
ChunkMissing ==
    /\ req[1].params.chunk_id \notin DOMAIN chunk_cache
    /\ req[1].params.chunk_id \notin DOMAIN storage

\* C16: get_chunk is called with chunk_init set exactly when the dataset declares an
\* initializer, or the request is a PUT_Chunk without query or a POST_Chunk with
\* action=put; a chunk in neither cache nor storage is initialized exactly in these cases,
\* and in the other cases the request ends with HTTPNotFound and cache and storage are
\* left as they were
C16_InitializationPermitted ==
    [][(req[1].handler \in {"PUT_Chunk", "GET_Chunk", "POST_Chunk"} /\ Fetches)
        => /\ req[1].chunk_init = InitPermitted(req[1])
           /\ ("chunk_init" \in req'[1].did) = (ChunkMissing /\ InitPermitted(req[1]))
           /\ (ChunkMissing /\ ~InitPermitted(req[1]))
                => /\ req'[1].pc = "done"
                   /\ req'[1].status = "HTTPNotFound"
                   /\ chunk_cache' = chunk_cache
                   /\ storage' = storage]_vars

\* a PUT_Chunk with a query on a compound dataset without initializer found no chunk
C16_Witness ==
    /\ req[1].handler = "PUT_Chunk"
    /\ req[1].params.query = "x > 1"
    /\ dset_json.fields
    /\ ~getChunkInitializer(dset_json)
    /\ "get_chunk" \in req[1].did
    /\ req[1].status = "HTTPNotFound"
    /\ req[1].params.chunk_id \notin DOMAIN chunk_cache
    /\ req[1].params.chunk_id \notin DOMAIN storage

\* a POST_Chunk with action=put initialized the chunk of a dataset without initializer
PostPutInitialized ==
    /\ req[1].handler = "POST_Chunk"
    /\ req[1].params.action = "put"
    /\ ~getChunkInitializer(dset_json)
    /\ "chunk_init" \in req[1].did

\* a PUT_Chunk without query that found its chunk, read its whole body and has ended
WriteEnded ==
    /\ req[1].handler = "PUT_Chunk"
    /\ req[1].params.query = Absent
    /\ "get_chunk" \in req[1].did
    /\ req[1].pc = "done"
    /\ req[1].status # "HTTPInternalServerError"
WriteAccepted == "chunkWriteSelection" \in req[1].did
FixedSize == itemsizeOf(dset_json) # H5T_VARIABLE
MultipleOfItemsize == req[1].params.content_length % itemsizeOf(dset_json) = 0
\* a payload that was not accepted changed no element and was not written back
RejectedPayloadUntouched ==
    (WriteEnded /\ ~WriteAccepted) => req[1].did \cap {"mutated", "save_chunk"} = {}
AcceptedOnlyMultiples ==
    (WriteEnded /\ FixedSize /\ WriteAccepted) => MultipleOfItemsize
VariableAccepted == (WriteEnded /\ ~FixedSize) => WriteAccepted

\* C17: a PUT_Chunk without query on fixed-size elements reaches the write if and only if
\* its content length is a multiple of the itemsize; on variable-length elements it
\* reaches the write with any content length; a payload that is refused changes no
\* element and is not written back
C17_AcceptedIffMultiple ==
    /\ (WriteEnded /\ FixedSize) => (WriteAccepted <=> MultipleOfItemsize)
    /\ VariableAccepted
    /\ RejectedPayloadUntouched

\* 4 bytes for a selection of two 1-byte elements are refused
MultipleRefused ==
    /\ WriteEnded
    /\ itemsizeOf(dset_json) = 1
    /\ req[1].params.select = strSelect(<<"[", "0", ":", "2", "]">>)
    /\ req[1].params.content_length = MaxExtent
    /\ req[1].status = "HTTPBadRequest"

(***************************************************************************)
(* DELETE_Chunk requests one after the other, on a node that holds chunks  *)
(* and filter descriptors                                                  *)
(***************************************************************************)
\* descriptors as getFilterOps leaves them in filter_map
StoredOps ==
    {getFilterOps(EmptyMap, "d-1", filters, NoneObj, NoneObj).result.value :
        filters \in {<<>>, <<[class |-> "H5Z_FILTER_DEFLATE", id |-> 1, name |-> "gzip",
                              level |-> 9]>>}}

InitDelete ==
    /\ args = EmptyMap
    /\ result = Raise("pending")
    /\ pc = "idle"
    /\ NoIterator
    /\ chunk_cache \in Maps(ChunkIds, Arrays)
    /\ storage \in Maps(ChunkIds, Arrays)
    /\ filter_map \in Maps(DsetIds, StoredOps)
    /\ dset_json = EmptyMap
    /\ write_zero_chunks = FALSE
    /\ req = [r \in Reqs |-> Idle]
    /\ first_ops = EmptyMap

NextDelete == DELETE_Chunk(1, DeleteParams) \/ DELETE_Chunk_2(1) \/ DELETE_Chunk_3(1)

SpecDelete == InitDelete /\ [][NextDelete]_vars

\* the DELETE_Chunk of slot 1 has completed with a success response
Deleted == req[1].handler = "DELETE_Chunk" /\ req[1].pc = "done" /\ req[1].status = "200"
\* nothing of the chunk is left on the node
Gone(chunk_id) ==
    /\ chunk_id \notin DOMAIN chunk_cache
    /\ getDatasetId(chunk_id) \notin DOMAIN filter_map
    /\ chunk_id \notin DOMAIN storage
\* a DELETE_Chunk for a chunk of which nothing is left changes nothing
RepeatChangesNothing ==
    (req'[1].handler = "DELETE_Chunk" /\ req'[1].params.chunk_id \in ChunkIds
        /\ Gone(req'[1].params.chunk_id))
    => UNCHANGED <<chunk_cache, filter_map, storage>>

\* C18: once a DELETE_Chunk for chunk c of dataset d has completed with success, with no
\* other request running, c is not in the chunk cache, d has no entry in filter_map and c
\* has no storage object; a well-formed DELETE_Chunk completes with success whether or not
\* the storage object existed, and one for a chunk of which nothing is left changes nothing
C18_DeleteRemoves ==
    /\ [](Deleted => Gone(req[1].params.chunk_id))
    /\ []((req[1].handler = "DELETE_Chunk" /\ req[1].pc = "done" /\ WellFormed(req[1].params))
            => req[1].status = "200")
    /\ [][RepeatChangesNothing]_vars

\* a DELETE_Chunk removed the storage object and left the descriptor of the other dataset
C18_Witness ==
    /\ Deleted
    /\ "deleteStorObj" \in req[1].did
    /\ DOMAIN filter_map = {"d-2"}
    /\ DOMAIN chunk_cache = ChunkIds \ {req[1].params.chunk_id}

\* the same request again, with no storage object left
DeletedAgain ==
    /\ Deleted
    /\ "deleteStorObj" \notin req[1].did
    /\ Gone(req[1].params.chunk_id)

\* a request body with start, stop and perhaps step, of the rank of dims, has been parsed
BodyParsed ==
    /\ Parsed
    /\ args.select.type = "dict"
    /\ Len(args.written) = Len(args.dims)

\* C19: for a request body {start, stop, optional step} of the rank of dims,
\* getSelectionList returns what it returns for the selection string
\* [start0:stop0(:step0),...] with the same bounds, and raises exactly when it raises for
\* that string
C19_BodyAsString ==
    BodyParsed => result = getSelectionList(strSelect(selectText(args.written)), args.dims)

\* a body of two dimensions with steps has been parsed into two strided ranges
C19_Witness ==
    /\ BodyParsed
    /\ args.select.body = [start |-> pylist(<<1, 0>>), stop |-> pylist(<<MaxExtent, 2>>),
                            step |-> pylist(<<2, 1>>)]
    /\ result = Return(<<slice(1, MaxExtent, 2), slice(0, 2, 1)>>)

\* a body with a bound outside the extent is refused as its string is
BodyRefused ==
    /\ BodyParsed
    /\ args.select.body.stop = pylist(<<MaxExtent + 1>>)
    /\ result = Raise("ValueError")

\* C20: when the bytes of the selection, product(getSelectionShape(select)) * itemsize, are
\* within max_request_size, getSelectionPagination returns one page, the selection
\* itself, and returns the same one page when it is applied to that page again
C20_OnePageWithinBudget ==
    (pc = "done" /\ Returned(getSelectionShape(args.select))
        /\ SelectBytes <= args.max_request_size)
    => /\ result = Return(<<args.select>>)
       /\ getSelectionPagination(result.value[1], args.dims, args.itemsize,
                                 args.max_request_size) = result

\* a selection of two dimensions whose bytes are exactly the budget
C20_Witness ==
    /\ pc = "done"
    /\ Len(args.select) = 2
    /\ Returned(getSelectionShape(args.select))
    /\ SelectBytes = args.max_request_size
    /\ SelectBytes > 1
    /\ result = Return(<<args.select>>)

\* the selection entry meant by what is written for a dimension of the given extent
MeantEntry(e, extent) ==
    CASE e.form = "index" -> slice(e.n, e.n + 1, 1)
      [] e.form = "range" ->
            slice(IF e.start.given THEN e.start.n ELSE 0,
                  IF e.stop.given THEN e.stop.n ELSE extent,
                  IF e.step.given THEN e.step.n ELSE 1)
      [] e.form = "coords" -> coordlist(e.coords)
\* every dimension is written in one of the forms of the grammar
InGrammar(written) == \A i \in 1..Len(written) : written[i].form # "raw"

\* C21: getSelectionList maps ':' to (0, extent, 1), 'a:b' to (a, b, 1), 'a:b:s' to
\* (a, b, s), a missing start to 0, a missing stop to extent, a missing stride to 1, a
\* single integer i to (i, i+1, 1), a bracketed integer list to that coordinate list in
\* the order given, and an absent or empty expression to (0, extent, 1) in every
\* dimension; an expression of the rank of dims with all bounds within limits is accepted
C21_ElementMapping ==
    pc = "done" =>
        /\ (args.select.type # "dict" /\ args.written = <<>>)
             => result = Return([i \in 1..Len(args.dims) |-> slice(0, args.dims[i], 1)])
        /\ (args.written # <<>> /\ InGrammar(args.written) /\ Returned(result))
             => result.value = [i \in 1..Len(args.written) |->
                                   MeantEntry(args.written[i], args.dims[i])]
        /\ (/\ args.written # <<>> /\ InGrammar(args.written)
            /\ Len(args.written) = Len(args.dims)
            /\ \A i \in 1..Len(args.written) : ~OutOfLimits(args.written[i], args.dims[i]))
             => Returned(result)

\* an index, and a range with a stride and no stop, have been parsed
C21_Witness ==
    /\ pc = "done"
    /\ args.select = strSelect(<<"[", "0", ",", ":", ":", "2", "]">>)
    /\ args.dims = <<2, MaxExtent>>
    /\ result = Return(<<slice(0, 1, 1), slice(0, MaxExtent, 2)>>)

\* a list of coordinates keeps its order
CoordsKeepOrder ==
    /\ pc = "done"
    /\ args.select = strSelect(<<"[", "[", "1", ",", "0", "]", "]">>)
    /\ result = Return(<<coordlist(<<1, 0>>)>>)

\* the entry is a range of stride 1 over the whole extent
CoversExtent(s, extent) ==
    isslice(s) /\ s.start = 0 /\ s.stop = extent /\ s.step \in {None, 1}

\* C22: isSelectAll(selection, dims) returns True if every entry is a range of stride 1
\* over [0, extent), and False for every other selection of the rank of dims, also for
\* one with a coordinate list or another stride
C22_SelectAllIffFullExtent ==
    pc = "isSelectAll"
        => result = Return(\A i \in 1..Len(args.slices) : CoversExtent(args.slices[i], args.dims[i]))

\* isSelectAll returns False for a selection without coordinate list that is not the
\* whole extent, and True for the whole extent
SelectAllOfRanges ==
    (pc = "isSelectAll" /\ \A i \in 1..Len(args.slices) : isslice(args.slices[i]))
        => result = Return(\A i \in 1..Len(args.slices) : CoversExtent(args.slices[i], args.dims[i]))
SelectAllOfAbsent ==
    /\ pc = "isSelectAll"
    /\ args.slices = getSelectionList(NoSelect, <<2, MaxExtent>>).value
    /\ args.dims = <<2, MaxExtent>>
    /\ result = Return(TRUE)

\* a coordinate list after a range over the whole extent makes isSelectAll raise
SelectAllRaised ==
    /\ pc = "isSelectAll"
    /\ args.slices = <<slice(0, 2, 1), coordlist(<<0, 0>>)>>
    /\ args.dims = <<2, MaxExtent>>
    /\ result = Raise("AttributeError")

\* the request writes into its chunk: a PUT_Chunk, or a POST_Chunk with action=put
WritesChunk(rq) ==
    \/ rq.handler = "PUT_Chunk"
    \/ rq.handler = "POST_Chunk" /\ rq.params.action = "put"

\* C23: a well-formed write request (PUT_Chunk with or without query, POST_Chunk with
\* action=put) for a chunk that is not in the cache, arriving while
\* memFree < min_chunk_size, ends with HTTPServiceUnavailable before any fetch or
\* initialization
C23_WritesGated ==
    [][\A r \in Reqs :
        (/\ ArrivesIn(r) /\ WritesChunk(req'[r]) /\ WellFormed(req'[r].params)
         /\ req'[r].params.chunk_id \notin DOMAIN chunk_cache
         /\ memFree(chunk_cache) < min_chunk_size)
        => /\ req'[r].pc = "done"
           /\ req'[r].status = "HTTPServiceUnavailable"
           /\ req'[r].did \cap Accesses = {}]_vars

\* the same for PUT_Chunk alone, with a query as well as without
PutWritesGated ==
    [][\A r \in Reqs :
        (/\ ArrivesIn(r) /\ req'[r].handler = "PUT_Chunk" /\ WellFormed(req'[r].params)
         /\ req'[r].params.chunk_id \notin DOMAIN chunk_cache
         /\ memFree(chunk_cache) < min_chunk_size)
        => /\ req'[r].pc = "done"
           /\ req'[r].status = "HTTPServiceUnavailable"
           /\ req'[r].did \cap Accesses = {}]_vars

\* a POST_Chunk with action=put initialized its chunk in a cache that held the other
\* chunk already, and wrote its points
PostPutAdmitted ==
    /\ req[1].handler = "POST_Chunk"
    /\ req[1].params.action = "put"
    /\ req[1].status = "200"
    /\ {"chunk_init", "chunkWritePoints", "save_chunk"} \subseteq req[1].did
    /\ DOMAIN chunk_cache = ChunkIds
    /\ memFree(chunk_cache) < min_chunk_size

\* C24: with write_zero_chunks set, every PUT_Chunk that completes with success, with a
\* query as well as without, has called save_chunk, also when no element changed
C24_AlwaysPersist ==
    (write_zero_chunks /\ Succeeded /\ req[1].handler = "PUT_Chunk")
        => "save_chunk" \in req[1].did

\* the same for a PUT_Chunk without query
SelectionWriteAlwaysSaved ==
    (write_zero_chunks /\ Succeeded /\ req[1].handler = "PUT_Chunk"
        /\ req[1].params.query = Absent)
        => "save_chunk" \in req[1].did
\* a write that changed no element was saved because write_zero_chunks is set
UnchangedWriteSaved ==
    /\ write_zero_chunks /\ Succeeded
    /\ req[1].handler = "PUT_Chunk"
    /\ "chunkWriteSelection" \in req[1].did
    /\ "mutated" \notin req[1].did
    /\ "save_chunk" \in req[1].did

\* a PUT_Chunk with a query that matched no row succeeded without save_chunk although
\* write_zero_chunks is set
QueryWriteNotSaved ==
    /\ write_zero_chunks /\ Succeeded
    /\ req[1].handler = "PUT_Chunk"
    /\ req[1].num_hits = 0
    /\ "save_chunk" \notin req[1].did

QueryRowsSent ==
    /\ req[1].handler = "GET_Chunk"
    /\ req[1].num_hits = 1
    /\ req[1].pc = "done"
    /\ req[1].status = "200"

(***************************************************************************)
(* The data node under concurrent requests: slot 1 serves every handler,   *)
(* slot 2 a second PUT_Chunk, and getFilterOps is called in between        *)
(***************************************************************************)
\* requests of slot 1: for chunk c-1_0, for no chunk id and for a chunk of another node
NodeParams ==
    {[Params(c, "bucket") EXCEPT !.content_length = MaxExtent] : c \in {"c-1_0", "x", "c-9_0"}}
NodePostParams == {[p EXCEPT !.action = a] : p \in NodeParams, a \in {Absent, "put"}}
\* the PUT_Chunk of slot 2, for the other chunk or for the same
OtherPutParams == {[Params(c, "bucket") EXCEPT !.content_length = MaxExtent] : c \in ChunkIds}
NodeFilterArgs ==
    [dset_id : {"d-1"},
     filters : {<<>>, <<[class |-> "H5Z_FILTER_DEFLATE", id |-> 1, name |-> "gzip", level |-> 9]>>},
     dtype : {NoneObj}, chunk_shape : {NoneObj}]

InitNode ==
    /\ args = EmptyMap
    /\ result = Raise("pending")
    /\ pc = "idle"
    /\ NoIterator
    /\ chunk_cache = EmptyMap
    /\ storage \in Maps({"c-1_0"}, {0})
    /\ filter_map = EmptyMap
    /\ dset_json = [layout |-> <<MaxExtent>>, size |-> 1, fields |-> FALSE, initializer |-> FALSE]
    /\ write_zero_chunks = FALSE
    /\ req = [r \in Reqs |-> Idle]
    /\ first_ops = EmptyMap

\* the bodies are read whole, and the points and the data written are all 1
NextNode ==
    \/ getFilterOpsCalled(NodeFilterArgs)
    \/ \E p \in NodeParams : Arrives(1, PUT_Chunk_start(Arriving(1, "PUT_Chunk", p)))
    \/ \E p \in OtherPutParams : Arrives(2, PUT_Chunk_start(Arriving(2, "PUT_Chunk", p)))
    \/ \E r \in Reqs : PUT_Chunk_2(r)
    \/ \E r \in Reqs : PUT_Chunk_3(r)
    \/ \E r \in Reqs :
          Resumes(r, {"PUT_Chunk"}, "request_read",
                  PUT_Chunk_request_read(World(r), [len |-> MaxExtent, data |-> 1]))
    \/ \E p \in NodeParams : Arrives(1, GET_Chunk_start(Arriving(1, "GET_Chunk", p)))
    \/ GET_Chunk_2(1)
    \/ Resumes(1, {"GET_Chunk"}, "get_chunk", GET_Chunk_get_chunk(World(1), "rows"))
    \/ \E p \in NodePostParams : Arrives(1, POST_Chunk_start(Arriving(1, "POST_Chunk", p)))
    \/ POST_Chunk_2(1)
    \/ Resumes(1, {"POST_Chunk"}, "request_read", POST_Chunk_request_read(World(1), "points"))
    \/ Resumes(1, {"POST_Chunk"}, "get_chunk", POST_Chunk_get_chunk(World(1), "done", 1))
    \/ Responds(1)
    \/ DELETE_Chunk(1, NodeParams)
    \/ DELETE_Chunk_2(1)
    \/ DELETE_Chunk_3(1)

SpecNode == InitNode /\ [][NextNode]_vars


(***************************************************************************)
(* Claims about the node under concurrent requests                         *)
(***************************************************************************)
\* the chunk id is well-formed and belongs to the partition of this node
Validated(chunk_id) == chunk_id # "" /\ isValidUuid(chunk_id) /\ validateInPartition(chunk_id)
\* the request has looked at the cache, loaded the descriptor, fetched the chunk,
\* changed filter_map or gone to the storage, or is waiting for one of these
Accessed(rq) ==
    \/ rq.did # {}
    \/ rq.pc \notin {"idle", "start", "done"}
    \/ rq.status = "HTTPServiceUnavailable"
SharedState == <<chunk_cache, storage, filter_map>>

\* C26: in every handler no cache lookup or removal, no descriptor load, no chunk
\* fetch, no filter_map change and no storage access happens unless the chunk id was
\* validated as well-formed and as belonging to the partition of this node, and a
\* request with an invalid chunk id leaves all shared state unchanged
C26_ValidatedBeforeAccess ==
    /\ [](\A r \in Reqs : Accessed(req[r]) => Validated(req[r].params.chunk_id))
    /\ [][\A r \in Reqs :
            req'[r] # req[r] /\ ~Validated(req'[r].params.chunk_id)
            => UNCHANGED SharedState]_vars
\* a DELETE_Chunk for a chunk of another node was refused while the cache and
\* filter_map held entries
C26_Witness ==
    /\ req[1].handler = "DELETE_Chunk"
    /\ req[1].params.chunk_id = "c-9_0"
    /\ req[1].status = "HTTPInternalServerError"
    /\ "c-1_1" \in DOMAIN chunk_cache
    /\ "d-1" \in DOMAIN filter_map


\* the step is the arrival of a DELETE_Chunk for a chunk of dataset d that got as far
\* as the removal of lines 870-879
DeletesChunkOf(d) ==
    \E r \in Reqs :
        /\ ArrivesIn(r)
        /\ req'[r].handler = "DELETE_Chunk"
        /\ "del" \in req'[r].did
        /\ getDatasetId(req'[r].params.chunk_id) = d
\* the step is one of a GET_Chunk, PUT_Chunk or POST_Chunk request
ChunkRequestSteps ==
    \E r \in Reqs : req'[r] # req[r] /\ req'[r].handler \in {"GET_Chunk", "PUT_Chunk", "POST_Chunk"}

\* C27: under any interleaving of getFilterOps calls and chunk requests, an entry of
\* filter_map for dataset d is never replaced by a different descriptor and is removed
\* only by a DELETE_Chunk for a chunk of d, and GET_Chunk, PUT_Chunk and POST_Chunk
\* never add, change or remove an entry of filter_map
C27_FilterMapEntriesStay ==
    [][/\ \A d \in DOMAIN filter_map :
            IF d \in DOMAIN filter_map' THEN filter_map'[d] = filter_map[d]
            ELSE DeletesChunkOf(d)
       /\ ChunkRequestSteps => filter_map' = filter_map]_vars
\* while a PUT_Chunk waits for its chunk and another request is under way, a call of
\* getFilterOps that declares a deflate filter got the stored descriptor without compressor
C27_Witness ==
    /\ pc = "called"
    /\ args.filters # <<>>
    /\ "d-1" \in DOMAIN filter_map
    /\ Returned(result)
    /\ result.value = filter_map["d-1"]
    /\ ~has(result.value, "compressor")
    /\ req[2].pc = "get_chunk"
    /\ req[1].pc \notin {"idle", "done"}
\* a DELETE_Chunk has removed the entry that a call of getFilterOps had stored
FilterEntryDeleted ==
    /\ pc = "called"
    /\ Returned(result)
    /\ "d-1" \notin DOMAIN filter_map
    /\ req[1].handler = "DELETE_Chunk"
    /\ "del" \in req[1].did


(***************************************************************************)
(* getSelectionList of an expression without the enclosing brackets        *)
(***************************************************************************)
\* n, n:m and n:m:s
BareForms ==
    {[form |-> "index", n |-> n] : n \in 0..MaxExtent}
    \cup {[form |-> "range", start |-> Given(a), stop |-> Given(b), step |-> Omitted, colons |-> 1] :
            a, b \in 0..MaxExtent}
    \cup {[form |-> "range", start |-> Given(a), stop |-> Given(b), step |-> Given(s), colons |-> 2] :
            a, b \in 0..MaxExtent, s \in 1..MaxStep}
\* args.select is the text of the one dimension as it stands
BareArgs(d) == {[select |-> strSelect(elementText(e)), dims |-> d, written |-> <<e>>] : e \in BareForms}

InitBare ==
    /\ \E extent \in 1..MaxExtent : args \in BareArgs(<<extent>>)
    /\ result = Raise("pending")
    /\ pc = "call"
    /\ NoIterator
    /\ NoNode
NextBare == CallParse
SpecBare == InitBare /\ [][NextBare]_vars

BareParsed == pc = "done" /\ args.select.text = elementText(args.written[1])
\* C28: for a one-dimensional target, an expression written without the enclosing
\* brackets, 'n', 'n:m' or 'n:m:s', is parsed by getSelectionList to the same selection
\* as the bracketed expression '[n]', '[n:m]' or '[n:m:s]'
C28_BracketsOptional ==
    BareParsed => result = getSelectionList(strSelect(selectText(args.written)), args.dims)
\* '1:3' was parsed as ':', the whole extent
BareRangeReadAsAll ==
    /\ BareParsed
    /\ args.select.text = <<"1", ":", "3">>
    /\ args.dims = <<MaxExtent>>
    /\ result = Return(<<slice(0, MaxExtent, 1)>>)
\* a single digit was refused
BareIndexRefused ==
    /\ BareParsed
    /\ args.written[1].form = "index"
    /\ result = Raise("ValueError")


(***************************************************************************)
(* Claims about the resolution of the declared filters                     *)
(***************************************************************************)
\* the first entry of one of the classes in declared order, NoneObj without one
FirstEntry(filters, entries) ==
    IF entries = {} THEN NoneObj
    ELSE filters[CHOOSE i \in entries : \A j \in entries : i <= j]
ShuffleEntry(filters) ==
    FirstEntry(filters, {i \in 1..Len(filters) :
        has(filters[i], "class")
        /\ filters[i].class \in {"H5Z_FILTER_SHUFFLE", "H5Z_FILTER_BITSHUFFLE"}})
CompressionEntry(filters) ==
    FirstEntry(filters, {i \in 1..Len(filters) :
        /\ has(filters[i], "class")
        /\ \/ filters[i].class \in COMPRESSION_FILTER_IDS
           \/ /\ filters[i].class = "H5Z_FILTER_USER"
              /\ has(filters[i], "name")
              /\ filters[i].name \in COMPRESSION_FILTER_NAMES})
\* the descriptor as the rule gives it
ResolvedAs(ops, filters, dtype) ==
    LET shuffleEntry == ShuffleEntry(filters)
        compression == CompressionEntry(filters)
    IN  /\ ops.shuffle = IF shuffleEntry = NoneObj \/ dtype.vlen THEN 0
                         ELSE IF shuffleEntry.class = "H5Z_FILTER_SHUFFLE" THEN 1
                         ELSE 2
        /\ IF compression = NoneObj THEN ~has(ops, "compressor")
           ELSE /\ has(ops, "compressor") /\ has(ops, "level")
                /\ ops.compressor = IF compression.class = "H5Z_FILTER_DEFLATE" THEN "zlib"
                                    ELSE IF has(compression, "name") THEN compression.name
                                    ELSE "lz4"
                /\ ops.level = IF has(compression, "level") THEN compression.level ELSE 5
\* the step is a call of getFilterOps for a dataset without entry, with an element type
MissedCall ==
    /\ req' = req
    /\ pc' = "called"
    /\ args'.dset_id \notin DOMAIN filter_map
    /\ args'.dtype # NoneObj
\* every shuffle entry carries the name of its class
NamedAfterClass(filters) ==
    \A i \in 1..Len(filters) :
        has(filters[i], "class") /\ filters[i].class \in {"H5Z_FILTER_SHUFFLE", "H5Z_FILTER_BITSHUFFLE"}
        => /\ has(filters[i], "name")
           /\ filters[i].name = IF filters[i].class = "H5Z_FILTER_SHUFFLE" THEN "shuffle"
                                ELSE "bitshuffle"

\* C29: on a cache miss getFilterOps resolves shuffle 1 for a shuffle-class entry, 2 for
\* a bitshuffle-class entry and 0 when the element type has variable-length fields or no
\* shuffle-class entry is declared; the compressor is that of the first compression
\* entry in declared order, 'zlib' for the deflate class, else the name of the entry,
\* 'lz4' without a name, with level 5 when no level is given; without a compression
\* entry the descriptor has no compressor key
C29_ResolutionOnMiss ==
    [][MissedCall => /\ Returned(result')
                     /\ ResolvedAs(result'.value, args'.filters, args'.dtype)]_vars
\* the resolution is as stated when the shuffle entries are named after their class
NamedEntriesResolved ==
    [][MissedCall /\ NamedAfterClass(args'.filters)
         => /\ Returned(result')
            /\ ResolvedAs(result'.value, args'.filters, args'.dtype)]_vars
\* a call that declared a shuffle entry without name for a fixed-width type raised,
\* and nothing was stored
UnnamedShuffleRaised ==
    /\ pc = "called"
    /\ args.dtype # NoneObj /\ ~args.dtype.vlen
    /\ ShuffleEntry(args.filters) # NoneObj
    /\ ~has(ShuffleEntry(args.filters), "name")
    /\ result = Raise("KeyError")
    /\ args.dset_id \notin DOMAIN filter_map
\* the bitshuffle entry and the first of two compressions were resolved
BitshuffleResolved ==
    /\ pc = "called"
    /\ Returned(result)
    /\ result.value.shuffle = 2
    /\ has(result.value, "compressor")
    /\ result.value.compressor = "zstd"
    /\ result.value.level = 5


\* request r is a PUT_Chunk whose fetch initialized its chunk and that has not ended
FetchedOwnChunk(r) ==
    /\ req[r].handler = "PUT_Chunk"
    /\ req[r].pc = "request_read"
    /\ "chunk_init" \in req[r].did
    /\ req[r].params.chunk_id \in DOMAIN chunk_cache

\* C30: the admission check and the fetch of PUT_Chunk are not atomic: the check takes
\* no room in the cache and the fetch adds the chunk without a look at the room, so two
\* concurrent PUT_Chunk requests for distinct chunks that are not in the cache both
\* pass the check before either fetch, and both chunks come to be in the cache although
\* the room left after the first is below min_chunk_size
C30_CheckThenFetch ==
    [][\A r \in Reqs :
        /\ (ArrivesIn(r) /\ req'[r].handler = "PUT_Chunk") => chunk_cache' = chunk_cache
        /\ (req[r].handler = "PUT_Chunk" /\ req[r].pc = "get_chunk" /\ req'[r] # req[r])
             => LET chunk_id == req[r].params.chunk_id IN
                /\ req'[r].status # "HTTPServiceUnavailable"
                /\ (chunk_id \in DOMAIN storage \/ req[r].chunk_init)
                     => chunk_id \in DOMAIN chunk_cache']_vars
\* both requests were admitted and have each initialized their chunk, and the cache
\* with either chunk alone has less than min_chunk_size free
C30_Witness ==
    /\ FetchedOwnChunk(1) /\ FetchedOwnChunk(2)
    /\ req[1].params.chunk_id # req[2].params.chunk_id
    /\ \A r \in Reqs : memFree(Del(chunk_cache, req[r].params.chunk_id)) < min_chunk_size
\* both requests have passed the check and neither has fetched: the cache is empty
BothAdmittedBeforeFetch ==
    /\ \A r \in Reqs : req[r].handler = "PUT_Chunk" /\ req[r].pc \in {"get_metadata_obj", "get_chunk"}
    /\ req[1].params.chunk_id # req[2].params.chunk_id
    /\ chunk_cache = EmptyMap


(***************************************************************************)
(* Claims about write-back                                                 *)
(***************************************************************************)
\* request 1 is a PUT_Chunk without query that has ended
SelectionWriteEnded ==
    /\ req[1].handler = "PUT_Chunk"
    /\ req[1].pc = "done"
    /\ req[1].params.query = Absent

\* C31: for a PUT_Chunk without query, write_zero_chunks not set, the chunk is written
\* back if and only if the write kernel reported a changed element, and the status is
\* 201 exactly when the write-back was issued and 200 otherwise
C31_WriteBackIffChanged ==
    (SelectionWriteEnded /\ ~write_zero_chunks) =>
        /\ "save_chunk" \in req[1].did <=> "mutated" \in req[1].did
        /\ req[1].status = "201" <=> "save_chunk" \in req[1].did
        /\ "chunkWriteSelection" \in req[1].did
             => req[1].status = (IF "save_chunk" \in req[1].did THEN "201" ELSE "200")
        /\ "chunkWriteSelection" \notin req[1].did => req[1].status \notin {"200", "201"}
\* a write that changed no element of a chunk initialized by this request ended with
\* 200 and without write-back
C31_Witness ==
    /\ SelectionWriteEnded /\ ~write_zero_chunks
    /\ "chunk_init" \in req[1].did
    /\ "chunkWriteSelection" \in req[1].did
    /\ "mutated" \notin req[1].did
    /\ "save_chunk" \notin req[1].did
    /\ req[1].status = "200"
\* a write that changed an element ended with 201 after the write-back
ChangedWriteSaved ==
    /\ SelectionWriteEnded /\ ~write_zero_chunks
    /\ "mutated" \in req[1].did
    /\ "save_chunk" \in req[1].did
    /\ req[1].status = "201"


\* request r reads: a GET_Chunk, or a POST_Chunk that is no point write
Reads(rq) ==
    \/ rq.handler = "GET_Chunk"
    \/ rq.handler = "POST_Chunk" /\ rq.params.action # "put"

\* C32: a read, by GET_Chunk or by POST_Chunk, calls save_chunk only if this request
\* initialized the chunk; a read of a chunk that was in the cache or in storage never
\* calls save_chunk, with or without an initializer declared
C32_ReadSavesOnlyNewChunk ==
    (Reads(req[1]) /\ "save_chunk" \in req[1].did) => "chunk_init" \in req[1].did
\* what the code does: a read that got its chunk calls save_chunk exactly when the
\* dataset declares an initializer
ReadSavesWhenInitializerDeclared ==
    (Reads(req[1]) /\ "get_chunk" \in req[1].did /\ req[1].status # "HTTPNotFound"
        /\ req[1].pc # "get_chunk")
        => ("save_chunk" \in req[1].did <=> getChunkInitializer(dset_json))
\* a GET_Chunk wrote back a chunk that it had found
FoundChunkSavedByGet ==
    /\ req[1].handler = "GET_Chunk"
    /\ "save_chunk" \in req[1].did
    /\ "chunk_init" \notin req[1].did
\* a POST_Chunk read wrote back a chunk that it had found
FoundChunkSavedByPost ==
    /\ req[1].handler = "POST_Chunk" /\ req[1].params.action # "put"
    /\ "save_chunk" \in req[1].did
    /\ "chunk_init" \notin req[1].did


\* request r is a PUT_Chunk suspended at the payload read whose chunk is gone from the
\* cache and from storage
PutOfDeletedChunk(r) ==
    /\ req[r].handler = "PUT_Chunk"
    /\ req[r].pc = "request_read"
    /\ req[r].params.chunk_id \notin DOMAIN chunk_cache
    /\ req[r].params.chunk_id \notin DOMAIN storage

\* C33: a DELETE_Chunk for chunk c that completes while a PUT_Chunk for c is suspended
\* at the payload read does not stop the PUT: it writes into its buffer and writes the
\* chunk back, so c is written back after the DELETE_Chunk has completed although no
\* request for c started later
C33_PutOutlivesDelete ==
    [][\A r \in Reqs :
        (PutOfDeletedChunk(r) /\ req'[r] # req[r]) =>
            /\ "chunkWriteSelection" \in req'[r].did
            /\ "mutated" \in req'[r].did
                 => /\ "save_chunk" \in req'[r].did
                    /\ req'[r].status = "201"
                    /\ req[r].params.chunk_id \in DOMAIN storage'
                    /\ req[r].params.chunk_id \in DOMAIN chunk_cache']_vars
\* the DELETE_Chunk of slot 1 has completed, the PUT_Chunk of slot 2 for the same chunk
\* had fetched the chunk before and has written it back after: the chunk is in storage
C33_Witness ==
    /\ req[1].handler = "DELETE_Chunk" /\ req[1].status = "200" /\ "del" \in req[1].did
    /\ req[2].handler = "PUT_Chunk" /\ req[2].status = "201"
    /\ req[2].params.chunk_id = req[1].params.chunk_id
    /\ "chunk_init" \notin req[2].did
    /\ "save_chunk" \in req[2].did
    /\ req[2].params.chunk_id \in DOMAIN storage
\* the DELETE_Chunk has completed while the PUT_Chunk for the same chunk awaits its payload
DeletedUnderPut ==
    /\ req[1].handler = "DELETE_Chunk" /\ req[1].status = "200"
    /\ PutOfDeletedChunk(2)
    /\ req[2].params.chunk_id = req[1].params.chunk_id


\* the two mappings agree on every key but k
SameBut(before, after, k) ==
    /\ DOMAIN before \ {k} = DOMAIN after \ {k}
    /\ \A x \in DOMAIN before \ {k} : after[x] = before[x]
\* the step is one of a DELETE_Chunk in slot 1
DeleteSteps == req'[1] # req[1] /\ req'[1].handler = "DELETE_Chunk"

\* C34: a DELETE_Chunk for chunk c of dataset d changes only the cache entry of c, the
\* filter_map entry of d and the storage object of c, every other entry of the cache,
\* of filter_map and of storage is as it was, and a DELETE_Chunk that fails (invalid id,
\* bucket or partition) changes nothing at all
C34_DeleteFrame ==
    [][DeleteSteps =>
        LET chunk_id == req'[1].params.chunk_id IN
        /\ SameBut(chunk_cache, chunk_cache', chunk_id)
        /\ SameBut(storage, storage', chunk_id)
        /\ SameBut(filter_map, filter_map', getDatasetId(chunk_id))
        /\ (req'[1].pc = "done" /\ req'[1].status # "200")
             => UNCHANGED <<chunk_cache, storage, filter_map>>]_vars
\* the chunk, its storage object and the descriptor of its dataset were removed, and the
\* other chunk is in the cache and in storage and the other dataset in filter_map
C34_Witness ==
    /\ Deleted
    /\ "deleteStorObj" \in req[1].did
    /\ ChunkIds \ {req[1].params.chunk_id} # {}
    /\ \A k \in ChunkIds \ {req[1].params.chunk_id} :
          k \in DOMAIN chunk_cache /\ k \in DOMAIN storage
    /\ "d-2" \in DOMAIN filter_map
    /\ Gone(req[1].params.chunk_id)
\* a DELETE_Chunk without bucket parameter failed with the node full of entries
DeleteFailedOnFullNode ==
    /\ req[1].handler = "DELETE_Chunk" /\ req[1].pc = "done"
    /\ req[1].status = "UnboundLocalError"
    /\ DOMAIN chunk_cache = ChunkIds /\ DOMAIN storage = ChunkIds /\ DOMAIN filter_map = DsetIds


(***************************************************************************)
(* Claims about the pages as selections                                    *)
(***************************************************************************)
\* page is a selection that getSelectionShape accepts, with start < stop in every range
ValidPage(page) ==
    /\ Returned(getSelectionShape(page))
    /\ \A i \in 1..Len(page) : isslice(page[i]) => page[i].start < page[i].stop

\* C35: every page returned by getSelectionPagination is a valid selection:
\* getSelectionShape(page) succeeds and every range has start < stop, also when the
\* selection has two coordinate lists of equal length of which one is paginated
C35_PagesAreSelections ==
    Paginated => \A k \in 1..Len(result.value) : ValidPage(result.value[k])
\* the pages are valid when the selection has at most one coordinate list
PagesOfOneCoordListValid ==
    (Paginated /\ Cardinality(CoordDims(args.select)) <= 1)
        => \A k \in 1..Len(result.value) : ValidPage(result.value[k])
\* a page pairs one coordinate of the paginated list with the whole other list
PageOfUnequalLists ==
    /\ Paginated
    /\ Len(result.value) > 1
    /\ Cardinality(CoordDims(args.select)) = 2
    /\ Returned(getSelectionShape(args.select))
    /\ getSelectionShape(result.value[1]) = Raise("HTTPBadRequest")


(***************************************************************************)
(* Claims about the length of the shape                                    *)
(***************************************************************************)
ShapeReturned == ShapeDone /\ Returned(result)
NumRanges(sel) == Cardinality({i \in 1..Len(sel) : isslice(sel[i])})

\* C39 as stated: the shape that getSelectionShape returns has one entry per dimension
\* of the selection, also for selections with two coordinate lists of equal length
C39_ShapeEntryPerDimension ==
    ShapeReturned => Len(result.value) = Len(args.selection)
\* C39 as amended: the shape that getSelectionShape returns has one entry per range of
\* the selection and one entry for all its coordinate lists together, so it has one
\* entry per dimension exactly when the selection has at most one coordinate list
C39_ShapeEntryPerRangeAndOneForLists ==
    ShapeReturned =>
        /\ Len(result.value) = NumRanges(args.selection)
                                 + (IF NumCoordLists(args.selection) > 0 THEN 1 ELSE 0)
        /\ Len(result.value) = Len(args.selection) <=> NumCoordLists(args.selection) <= 1
\* two coordinate lists of length 2 gave the shape [2]
C39_Witness ==
    /\ ShapeReturned
    /\ args.selection = <<coordlist(<<0, 1>>), coordlist(<<1, 0>>)>>
    /\ result = Return(<<2>>)


startInvalid(dsetshape, start) ==
    \E dim \in 1..Len(dsetshape) : start[dim] < 0 \/ start[dim] >= dsetshape[dim]
stopBad(dsetshape, start, stop) ==
    \E dim \in 1..Len(dsetshape) : stop[dim] <= start[dim] \/ stop[dim] > dsetshape[dim]
stepInvalid(dsetshape, step) ==
    \E dim \in 1..Len(dsetshape) : step[dim] <= 0 \/ step[dim] > dsetshape[dim]

\* lines 260-330, start, stop and step given as lists with at least one member
getHyperslabSelection(dsetshape, start, stop, step) ==
    LET rank == Len(dsetshape) IN
    IF Len(start) # rank THEN Raise("HTTPBadRequest")
    ELSE IF startInvalid(dsetshape, start) THEN Raise("HTTPBadRequest")
    ELSE IF Len(stop) # rank THEN Raise("HTTPBadRequest")
    ELSE IF stopBad(dsetshape, start, stop) THEN Raise("HTTPBadRequest")
    ELSE IF Len(step) # rank THEN Raise("HTTPBadRequest")
    ELSE IF stepInvalid(dsetshape, step) THEN Raise("HTTPBadRequest")
    ELSE Return([dim \in 1..rank |-> slice(start[dim], stop[dim], step[dim])])

\* bounds below, inside and above the extent, steps from 0 to above the extent
HyperslabArgs(dims) ==
    {[dims |-> dims, start |-> <<a>>, stop |-> <<b>>, step |-> <<s>>] :
        a \in Nums, b \in Nums, s \in 0..(MaxExtent + 1)}
TwoDimHyperslabArgs(dims) ==
    {[dims |-> dims, start |-> <<a, 0>>, stop |-> <<b, dims[2]>>, step |-> <<1, s>>] :
        a \in 0..1, b \in 1..dims[1], s \in 0..(MaxExtent + 1)}

InitHyperslab ==
    /\ \/ \E extent \in 1..MaxExtent : args \in HyperslabArgs(<<extent>>)
       \/ args \in TwoDimHyperslabArgs(<<MaxExtent, 2>>)
    /\ result = Raise("pending")
    /\ pc = "call"
    /\ NoIterator
    /\ NoNode
CallHyperslab ==
    /\ pc = "call"
    /\ result' = getHyperslabSelection(args.dims, args.start, args.stop, args.step)
    /\ pc' = "done"
    /\ UNCHANGED <<args, iterVars, nodeVars>>
NextHyperslab == CallHyperslab
SpecHyperslab == InitHyperslab /\ [][NextHyperslab]_vars

\* the string [start:stop:step,...] of the lists
hyperslabText(start, stop, step) ==
    <<"[">>
    \o join([dim \in 1..Len(start) |->
                str(start[dim]) \o <<":">> \o str(stop[dim]) \o <<":">> \o str(step[dim])], ",")
    \o <<"]">>
HyperslabAsString ==
    getSelectionList(strSelect(hyperslabText(args.start, args.stop, args.step)), args.dims)
HyperslabDone == pc = "done"

\* C37: for start, stop and step given as lists of the rank of dims,
\* getHyperslabSelection and getSelectionList on '[start:stop:step,...]' accept the same
\* inputs and return the same ranges, a step above the extent included
C37_HyperslabAsSelectionList ==
    HyperslabDone =>
        /\ Returned(result) <=> Returned(HyperslabAsString)
        /\ Returned(result) => result.value = HyperslabAsString.value
\* the two agree whenever no step is above the extent of its dimension
AgreeUpToExtent ==
    (HyperslabDone /\ \A dim \in 1..Len(args.dims) : args.step[dim] <= args.dims[dim]) =>
        /\ Returned(result) <=> Returned(HyperslabAsString)
        /\ Returned(result) => result.value = HyperslabAsString.value
\* what getHyperslabSelection accepts, getSelectionList returns as well
HyperslabWithinSelectionList ==
    (HyperslabDone /\ Returned(result)) => HyperslabAsString = result
\* a step above the extent was refused by getHyperslabSelection and taken by
\* getSelectionList
LongStepRefused ==
    /\ HyperslabDone
    /\ args.dims = <<1>> /\ args.start = <<0>> /\ args.stop = <<1>> /\ args.step = <<2>>
    /\ result = Raise("HTTPBadRequest")
    /\ HyperslabAsString = Return(<<slice(0, 1, 2)>>)


\* the request in slot 1 is a POST_Chunk with action=put and a JSON body that has
\* passed the checks of its parameters
JsonPut ==
    /\ req[1].handler = "POST_Chunk"
    /\ req[1].params.action = "put"
    /\ req[1].params.content_type = "json"
    /\ "get_metadata_obj" \in req[1].did

\* C38: a POST_Chunk with action=put and a JSON body ends with a bad request before the
\* chunk is fetched or initialized: it never calls get_chunk, never comes to the point
\* write without a point array and leaves no newly initialized chunk behind
C38_JsonPutRefusedBeforeFetch ==
    JsonPut =>
        /\ {"get_chunk", "chunk_init"} \cap req[1].did = {}
        /\ req[1].pc = "done" => req[1].status = "HTTPBadRequest"
\* a JSON body without select is refused with a bad request before the fetch
JsonPutWithoutSelectRefused ==
    (JsonPut /\ req[1].pc = "done" /\ req[1].body = NoneObj) =>
        /\ req[1].status = "HTTPBadRequest"
        /\ {"get_chunk", "chunk_init"} \cap req[1].did = {}
\* a JSON body with select never ends with a bad request and never writes points
JsonPutWithSelectFails ==
    (JsonPut /\ req[1].pc = "done" /\ req[1].body # NoneObj) =>
        /\ "get_chunk" \in req[1].did
        /\ req[1].status \in {"UnboundLocalError", "HTTPNotFound"}
        /\ {"chunkWritePoints", "save_chunk"} \cap req[1].did = {}
\* a POST_Chunk with action=put and a JSON body with select initialized its chunk, came
\* to the point write without a point array and left the chunk in the cache, unsaved
JsonPutLeftChunk ==
    /\ JsonPut
    /\ req[1].pc = "done"
    /\ req[1].status = "UnboundLocalError"
    /\ {"get_chunk", "chunk_init"} \subseteq req[1].did
    /\ "save_chunk" \notin req[1].did
    /\ req[1].params.chunk_id \in DOMAIN chunk_cache
    /\ req[1].params.chunk_id \notin DOMAIN storage
====
